---- MODULE Spec2Model ----
(***************************************************************************)
(* Print-job cost estimator (neenza/offset-calculator).                    *)
(*                                                                         *)
(* The cost engine calculateTotalCost (utils/calculatorUtils) and the      *)
(* paper cost matrix calculateCostPerSheet (data/paperMatrix) are modelled *)
(* over exact rational numbers: a JavaScript number is a record            *)
(*   [k |-> "num", n |-> numerator, d |-> denominator]   (lowest terms)    *)
(* and the two non-numbers the code can produce from a partially filled    *)
(* job are the records with k = "undefined" and k = "NaN".  Floating-point *)
(* rounding is not modelled; everything else (truthiness tests, the `||`   *)
(* defaults, NaN propagation, comparisons with NaN) follows JavaScript.    *)
(***************************************************************************)
EXTENDS Integers, Sequences, FiniteSets, TLC

VARIABLES
    job,        \* the PrintingJob handed to calculateTotalCost
    settings,   \* useSettingsStore state: paperTypes, bindingOptions, laminationCosts
    result,     \* the CostBreakdown returned by the last call, or NoResult
    log,        \* what the last call wrote with console.log
    calls,      \* the breakdowns returned by the calls made so far, in order
    sheet,      \* a direct call of calculateCostPerSheet: its arguments and result
    paperMatrix, \* a call of generatePaperMatrix: its arguments and result
    jobStore,   \* useJobStore state (currentJob) and the localStorage under it
    auth,       \* authService: the refresh state, its callers and requests
    provider,   \* AuthProvider state and its refreshUser requests in flight
    form,       \* JobDetailsForm: the stored job and its pending effects
    events      \* AuthEventManager: the listeners and the deliveries made

vars == <<job, settings, result, log, calls, sheet, paperMatrix, jobStore, auth, provider, form, events>>

\* The variables of the cost engine, and those of the rest of the application
engineVars == <<job, settings, result, log, calls, sheet>>

appVars == <<paperMatrix, jobStore, auth, provider, form, events>>

\* The value of a variable whose component takes no part in a specification
Idle == [none |-> TRUE]

AppIdle ==
    /\ paperMatrix = Idle /\ jobStore = Idle /\ auth = Idle
    /\ provider = Idle /\ form = Idle /\ events = Idle

----------------------------------------------------------------------------
(* JavaScript numbers *)

RECURSIVE GCD(_, _)
GCD(a, b) == IF b = 0 THEN a ELSE GCD(b, a % b)

Abs(x) == IF x < 0 THEN -x ELSE x

\* The rational nn/dd (dd # 0) in lowest terms with a positive denominator.
Frac(nn, dd) ==
    LET g == GCD(Abs(nn), Abs(dd))
        s == IF dd < 0 THEN -1 ELSE 1
    IN  [k |-> "num", n |-> s * (nn \div g), d |-> s * (dd \div g)]

Num(x) == [k |-> "num", n |-> x, d |-> 1]

Undefined == [k |-> "undefined", n |-> 0, d |-> 1]

NaN == [k |-> "NaN", n |-> 0, d |-> 1]

IsNum(x) == x.k = "num"

\* if (x), x && y, x || y: undefined, NaN and 0 are falsy.
Truthy(x) == IsNum(x) /\ x.n # 0

\* x || dflt
OrElse(x, dflt) == IF Truthy(x) THEN x ELSE dflt

\* x + y on numbers: undefined converts to NaN, NaN propagates.
JsAdd(x, y) ==
    IF ~IsNum(x) \/ ~IsNum(y) THEN NaN
    ELSE LET g == GCD(x.d, y.d)
         IN  Frac(x.n * (y.d \div g) + y.n * (x.d \div g), (x.d \div g) * y.d)

JsNeg(x) == IF ~IsNum(x) THEN NaN ELSE [x EXCEPT !.n = -x.n]

\* x - y
JsSub(x, y) == JsAdd(x, JsNeg(y))

\* x * y
JsMul(x, y) ==
    IF ~IsNum(x) \/ ~IsNum(y) THEN NaN
    ELSE LET g1 == GCD(Abs(x.n), y.d)
             g2 == GCD(Abs(y.n), x.d)
         IN  Frac((x.n \div g1) * (y.n \div g2), (x.d \div g2) * (y.d \div g1))

\* x / y for a divisor the code never lets be zero (a literal, or guarded)
JsDiv(x, y) ==
    IF ~IsNum(x) \/ ~IsNum(y) THEN NaN
    ELSE JsMul(x, Frac(y.d, y.n))

\* x > y: false when either side is not a number
JsGt(x, y) ==
    /\ IsNum(x) /\ IsNum(y)
    /\ LET g == GCD(x.d, y.d) IN x.n * (y.d \div g) > y.n * (x.d \div g)

JsGe0(x) == IsNum(x) /\ x.n >= 0

----------------------------------------------------------------------------
(* Catalogs: data/printingOptions, data/paperMatrix *)

\* SHEET_SIZES, widths and heights in millimetres
SHEET_SIZES ==
    << [id |-> "a6",     width |-> 105, height |-> 148],
       [id |-> "a5",     width |-> 148, height |-> 210],
       [id |-> "a4",     width |-> 210, height |-> 297],
       [id |-> "a3",     width |-> 297, height |-> 420],
       [id |-> "sra3",   width |-> 320, height |-> 450],
       [id |-> "custom", width |-> 0,   height |-> 0] >>

\* GSM_OPTIONS
GSM_OPTIONS == <<70, 80, 90, 100, 120, 130, 150, 170, 200, 220, 250, 300, 350>>

\* PAPER_TYPES of the current revision: every (material, gsm), costPerSheet 0
PAPER_TYPES ==
    [i \in 1..(3 * Len(GSM_OPTIONS)) |->
        LET m == (i - 1) \div Len(GSM_OPTIONS)
            g == GSM_OPTIONS[((i - 1) % Len(GSM_OPTIONS)) + 1]
        IN  [id |-> <<(CASE m = 0 -> "uncoated" [] m = 1 -> "coated-matt"
                         [] OTHER -> "coated-gloss"), g>>,
             costPerSheet |-> Num(0)]]

\* PAPER_TYPES of the earlier revision, which a settings snapshot may still hold
LEGACY_PAPER_TYPES ==
    << [id |-> <<"uncoated", 80>>,      costPerSheet |-> Num(3)],
       [id |-> <<"uncoated", 100>>,     costPerSheet |-> Num(4)],
       [id |-> <<"coated-matt", 130>>,  costPerSheet |-> Num(5)],
       [id |-> <<"coated-gloss", 150>>, costPerSheet |-> Num(6)],
       [id |-> <<"coated-gloss", 250>>, costPerSheet |-> Num(9)],
       [id |-> <<"cardstock", 300>>,    costPerSheet |-> Num(12)],
       [id |-> <<"cardstock", 350>>,    costPerSheet |-> Num(15)] >>

BINDING_OPTIONS ==
    << [id |-> "saddle-stitch",   baseCost |-> Num(3000),  perUnitCost |-> Num(10)],
       [id |-> "perfect-binding", baseCost |-> Num(10000), perUnitCost |-> Num(50)],
       [id |-> "spiral-binding",  baseCost |-> Num(5000),  perUnitCost |-> Num(30)],
       [id |-> "hardcover",       baseCost |-> Num(20000), perUnitCost |-> Num(200)] >>

LaminationTypes == {"matt", "gloss", "thermal-matt", "thermal-gloss"}

DEFAULT_LAMINATION_COSTS ==
    [t \in LaminationTypes |->
        CASE t = "matt"  -> Frac(25, 100)
          [] t = "gloss" -> Frac(35, 100)
          [] OTHER       -> Frac(65, 100)]

\* Array.prototype.find: the first element satisfying Test, or NotFound
FindFirst(seq, Test(_), NotFound) ==
    LET hits == {i \in 1..Len(seq) : Test(seq[i])}
    IN  IF hits = {} THEN NotFound
        ELSE seq[CHOOSE i \in hits : \A k \in hits : i <= k]

----------------------------------------------------------------------------
(* data/paperMatrix: calculateCostPerSheet *)

\* The default values of the parameters a caller leaves undefined
DefaultIncreasePerGsm == Frac(5, 10)

DefaultBaseGsm == Num(80)

\* calculateCostPerSheet with the grams-to-kilograms division left out
calculateCostPerSheet_Grams(width, height, gsm, costPerKg, gsmPriceMode, paperCostIncreasePerGsm, baseGsm, customCostMatrix) ==
    LET mode            == IF gsmPriceMode = "undefined" THEN "flat" ELSE gsmPriceMode
        increase        == IF paperCostIncreasePerGsm.k = "undefined"
                           THEN DefaultIncreasePerGsm ELSE paperCostIncreasePerGsm
        base            == IF baseGsm.k = "undefined" THEN DefaultBaseGsm ELSE baseGsm
        areaInSqMeters  == JsMul(JsDiv(width, Num(1000)), JsDiv(height, Num(1000)))
        weightInGrams   == JsMul(areaInSqMeters, gsm)
        adjustedCostPerKg ==
            IF mode = "slope" /\ JsGt(gsm, base)
            THEN JsAdd(costPerKg, JsMul(JsSub(gsm, base), increase))
            ELSE costPerKg
    IN  JsMul(weightInGrams, adjustedCostPerKg)

\* calculateCostPerSheet with the slope surcharge applied at every gsm
calculateCostPerSheet_SlopeUnguarded(width, height, gsm, costPerKg, gsmPriceMode, paperCostIncreasePerGsm, baseGsm, customCostMatrix) ==
    LET mode            == IF gsmPriceMode = "undefined" THEN "flat" ELSE gsmPriceMode
        increase        == IF paperCostIncreasePerGsm.k = "undefined"
                           THEN DefaultIncreasePerGsm ELSE paperCostIncreasePerGsm
        base            == IF baseGsm.k = "undefined" THEN DefaultBaseGsm ELSE baseGsm
        areaInSqMeters  == JsMul(JsDiv(width, Num(1000)), JsDiv(height, Num(1000)))
        weightInKg      == JsDiv(JsMul(areaInSqMeters, gsm), Num(1000))
        adjustedCostPerKg ==
            IF mode = "slope"
            THEN JsAdd(costPerKg, JsMul(JsSub(gsm, base), increase))
            ELSE costPerKg
    IN  JsMul(weightInKg, adjustedCostPerKg)

\* calculateCostPerSheet with the slope surcharge taken off the cost per kg
calculateCostPerSheet_SlopeDiscount(width, height, gsm, costPerKg, gsmPriceMode, paperCostIncreasePerGsm, baseGsm, customCostMatrix) ==
    LET mode            == IF gsmPriceMode = "undefined" THEN "flat" ELSE gsmPriceMode
        increase        == IF paperCostIncreasePerGsm.k = "undefined"
                           THEN DefaultIncreasePerGsm ELSE paperCostIncreasePerGsm
        base            == IF baseGsm.k = "undefined" THEN DefaultBaseGsm ELSE baseGsm
        areaInSqMeters  == JsMul(JsDiv(width, Num(1000)), JsDiv(height, Num(1000)))
        weightInKg      == JsDiv(JsMul(areaInSqMeters, gsm), Num(1000))
        adjustedCostPerKg ==
            IF mode = "slope" /\ JsGt(gsm, base)
            THEN JsSub(costPerKg, JsMul(JsSub(gsm, base), increase))
            ELSE costPerKg
    IN  JsMul(weightInKg, adjustedCostPerKg)

\* calculateCostPerSheet(width, height, gsm, costPerKg, gsmPriceMode,
\*                       paperCostIncreasePerGsm, baseGsm)
\* The callers pass customCostMatrix as an eighth argument; the function
\* declares seven parameters, so the eighth is dropped.
calculateCostPerSheet(width, height, gsm, costPerKg, gsmPriceMode, paperCostIncreasePerGsm, baseGsm, customCostMatrix) ==
    LET mode            == IF gsmPriceMode = "undefined" THEN "flat" ELSE gsmPriceMode
        increase        == IF paperCostIncreasePerGsm.k = "undefined"
                           THEN DefaultIncreasePerGsm ELSE paperCostIncreasePerGsm
        base            == IF baseGsm.k = "undefined" THEN DefaultBaseGsm ELSE baseGsm
        widthInMeters   == JsDiv(width, Num(1000))
        heightInMeters  == JsDiv(height, Num(1000))
        areaInSqMeters  == JsMul(widthInMeters, heightInMeters)
        weightInKg      == JsDiv(JsMul(areaInSqMeters, gsm), Num(1000))
        gsmDifference   == JsSub(gsm, base)
        costIncrease    == JsMul(gsmDifference, increase)
        adjustedCostPerKg ==
            IF mode = "slope" /\ JsGt(gsm, base)
            THEN JsAdd(costPerKg, costIncrease)
            ELSE costPerKg
    IN  JsMul(weightInKg, adjustedCostPerKg)

----------------------------------------------------------------------------
(* utils/calculatorUtils: calculateTotalCost *)

\* paperTypes.find(paper => paper.id === job.paperTypeId)
SelectedPaper(j, s) ==
    LET Test(p) == p.id = j.paperTypeId
    IN  FindFirst(s.paperTypes, Test, [id |-> <<"undefined", 0>>, costPerSheet |-> Undefined])

\* The selected binding falling back on the first option of the catalog
SelectedBinding_Default(j, s) ==
    LET Test(b) == b.id = j.bindingOptionId
    IN  FindFirst(s.bindingOptions, Test, s.bindingOptions[1])

\* job.bindingOptionId ? bindingOptions.find(...) : null
SelectedBinding(j, s) ==
    LET Test(b) == b.id = j.bindingOptionId
        None    == [id |-> "undefined", baseCost |-> Undefined, perUnitCost |-> Undefined]
    IN  IF j.bindingOptionId \in {"null", "undefined", ""} THEN None
        ELSE FindFirst(s.bindingOptions, Test, None)

\* The sheets needed with a double-sided job taking two sheets per copy
SheetsNeeded_DoubleSided(j) ==
    JsMul(JsMul(j.quantity, IF j.isDoubleSided THEN Num(2) ELSE Num(1)),
          JsAdd(Num(1), JsDiv(j.wastagePercentage, Num(100))))

\* job.quantity * (job.isDoubleSided ? 1 : 1) * (1 + job.wastagePercentage / 100)
SheetsNeeded(j) ==
    JsMul(JsMul(j.quantity, IF j.isDoubleSided THEN Num(1) ELSE Num(1)),
          JsAdd(Num(1), JsDiv(j.wastagePercentage, Num(100))))

\* The sheet dimensions in mm: the custom ones when the size selector is
\* "custom" and both are truthy, else those of SHEET_SIZES' entry for
\* job.paperSizeId; source "none" leaves width and height undefined.
SheetDimensions(j) ==
    LET Test(size)   == size.id = j.paperSizeId
        NoSize       == [id |-> "undefined", width |-> 0, height |-> 0]
        selectedSize == FindFirst(SHEET_SIZES, Test, NoSize)
    IN  IF j.sheetSizeId = "custom" /\ Truthy(j.customSheetWidth) /\ Truthy(j.customSheetHeight)
        THEN [source |-> "custom", width |-> j.customSheetWidth, height |-> j.customSheetHeight]
        ELSE IF j.paperSizeId \notin {"undefined", ""} /\ selectedSize.id # "undefined"
        THEN [source |-> "standard", width |-> Num(selectedSize.width),
              height |-> Num(selectedSize.height)]
        ELSE [source |-> "none", width |-> Undefined, height |-> Undefined]

\* hasValidParams: an object, even an empty one, is truthy
HasValidParams(j) ==
    \/ j.gsmPriceMode = "flat" /\ Truthy(j.paperCostPerKg)
    \/ j.gsmPriceMode = "slope" /\ Truthy(j.paperCostPerKg) /\ Truthy(j.paperCostIncreasePerGsm)
    \/ j.gsmPriceMode = "custom" /\ j.customCostMatrix.defined

\* Whether the cost per sheet comes from calculateCostPerSheet
UsesMatrix(j) ==
    /\ Truthy(j.paperGsm)
    /\ Truthy(SheetDimensions(j).width) /\ Truthy(SheetDimensions(j).height)
    /\ HasValidParams(j)

\* let costPerSheet = selectedPaper ? selectedPaper.costPerSheet : 0, replaced
\* by the matrix calculation when it applies
CostPerSheet(j, s) ==
    LET selectedPaper == SelectedPaper(j, s)
        dims          == SheetDimensions(j)
    IN  IF UsesMatrix(j)
        THEN calculateCostPerSheet(dims.width, dims.height, j.paperGsm,
                                   OrElse(j.paperCostPerKg, Num(150)), j.gsmPriceMode,
                                   j.paperCostIncreasePerGsm, Num(80), j.customCostMatrix)
        ELSE IF selectedPaper.id # <<"undefined", 0>> THEN selectedPaper.costPerSheet
        ELSE Num(0)

MaterialCost(j, s) == JsMul(SheetsNeeded(j), CostPerSheet(j, s))

\* The pre-press cost with one set of plates whatever the sides
PrePressSetupCost_SingleSided(j) ==
    JsAdd(JsAdd(j.designSetupFee, JsMul(j.plateCost, j.numberOfColors)), j.proofingCharges)

\* plateCostTotal = plateCost * numberOfColors * (isDoubleSided ? 2 : 1);
\* prePressSetupCost = designSetupFee + plateCostTotal + proofingCharges
PrePressSetupCost(j) ==
    LET plateCostTotal == JsMul(JsMul(j.plateCost, j.numberOfColors),
                                IF j.isDoubleSided THEN Num(2) ELSE Num(1))
    IN  JsAdd(JsAdd(j.designSetupFee, plateCostTotal), j.proofingCharges)

\* const pressCost = job.fullPrintingCost
PressCost(j) == j.fullPrintingCost

\* laminationCosts[job.laminationType] || (fallback constant for the type)
LaminationPerSqMCost(j, s) ==
    LET stored == IF j.laminationType \in DOMAIN s.laminationCosts
                  THEN s.laminationCosts[j.laminationType] ELSE Undefined
    IN  OrElse(stored,
               CASE j.laminationType = "matt"          -> Frac(25, 100)
                 [] j.laminationType = "gloss"         -> Frac(35, 100)
                 [] j.laminationType = "thermal-matt"  -> Frac(65, 100)
                 [] j.laminationType = "thermal-gloss" -> Frac(65, 100)
                 [] OTHER                              -> Frac(35, 100))

\* The lamination term charged per sheet needed, wastage included
LaminationCost_PerSheetNeeded(j, s) ==
    LET laminationMultiplier == IF j.isDoubleSidedLamination THEN Num(2) ELSE Num(1)
        dims       == SheetDimensions(j)
        areaInSqIn == IF Truthy(dims.width) /\ Truthy(dims.height)
                      THEN JsMul(JsDiv(dims.width, Frac(254, 10)),
                                 JsDiv(dims.height, Frac(254, 10)))
                      ELSE Num(0)
    IN  JsDiv(JsMul(JsMul(JsMul(LaminationPerSqMCost(j, s), SheetsNeeded(j)),
                          laminationMultiplier), areaInSqIn), Num(100))

\* The lamination term of finishingCost
LaminationCost(j, s) ==
    LET laminationMultiplier == IF j.isDoubleSidedLamination THEN Num(2) ELSE Num(1)
        dims       == SheetDimensions(j)
        areaInSqIn == IF Truthy(dims.width) /\ Truthy(dims.height)
                      THEN JsMul(JsDiv(dims.width, Frac(254, 10)),
                                 JsDiv(dims.height, Frac(254, 10)))
                      ELSE Num(0)
    IN  JsDiv(JsMul(JsMul(JsMul(LaminationPerSqMCost(j, s), j.quantity),
                          laminationMultiplier), areaInSqIn), Num(100))

\* The finishing cost with cutting charged per copy
FinishingCost_CuttingPerCopy(j, s) ==
    LET selectedBinding == SelectedBinding(j, s)
        folding    == IF j.foldingRequired
                      THEN JsMul(JsMul(j.numberOfFolds, j.quantity), Num(1)) ELSE Num(0)
        cutting    == IF j.cuttingRequired
                      THEN JsMul(JsMul(j.numberOfCuts, Num(500)), j.quantity) ELSE Num(0)
        binding    == IF selectedBinding.id # "undefined"
                      THEN JsAdd(selectedBinding.baseCost,
                                 JsMul(selectedBinding.perUnitCost, j.quantity))
                      ELSE Num(0)
        lamination == IF j.laminationType # "none" THEN LaminationCost(j, s) ELSE Num(0)
        embossing  == IF j.embossingRequired
                      THEN JsAdd(Num(100), JsMul(Frac(2, 10), j.quantity)) ELSE Num(0)
        foiling    == IF j.foilingRequired
                      THEN JsAdd(Num(150), JsMul(Frac(3, 10), j.quantity)) ELSE Num(0)
    IN  JsAdd(JsAdd(JsAdd(JsAdd(JsAdd(JsAdd(JsAdd(Num(0), folding), cutting), binding),
                          lamination), embossing), foiling), j.packagingDeliveryCost)

\* The finishing cost with the packaging and delivery cost added twice
FinishingCost_PackagingTwice(j, s) ==
    LET selectedBinding == SelectedBinding(j, s)
        folding    == IF j.foldingRequired
                      THEN JsMul(JsMul(j.numberOfFolds, j.quantity), Num(1)) ELSE Num(0)
        cutting    == IF j.cuttingRequired THEN JsMul(j.numberOfCuts, Num(500)) ELSE Num(0)
        binding    == IF selectedBinding.id # "undefined"
                      THEN JsAdd(selectedBinding.baseCost,
                                 JsMul(selectedBinding.perUnitCost, j.quantity))
                      ELSE Num(0)
        lamination == IF j.laminationType # "none" THEN LaminationCost(j, s) ELSE Num(0)
        embossing  == IF j.embossingRequired
                      THEN JsAdd(Num(100), JsMul(Frac(2, 10), j.quantity)) ELSE Num(0)
        foiling    == IF j.foilingRequired
                      THEN JsAdd(Num(150), JsMul(Frac(3, 10), j.quantity)) ELSE Num(0)
    IN  JsAdd(JsAdd(JsAdd(JsAdd(JsAdd(JsAdd(JsAdd(JsAdd(Num(0), folding), cutting), binding),
                          lamination), embossing), foiling), j.packagingDeliveryCost),
              j.packagingDeliveryCost)

\* let finishingCost = 0, then one "finishingCost += ..." per finishing
\* option the job asks for (an option not asked for adds 0), then
\* finishingCost += job.packagingDeliveryCost
FinishingCost(j, s) ==
    LET selectedBinding == SelectedBinding(j, s)
        folding    == IF j.foldingRequired
                      THEN JsMul(JsMul(j.numberOfFolds, j.quantity), Num(1)) ELSE Num(0)
        cutting    == IF j.cuttingRequired THEN JsMul(j.numberOfCuts, Num(500)) ELSE Num(0)
        binding    == IF selectedBinding.id # "undefined"
                      THEN JsAdd(selectedBinding.baseCost,
                                 JsMul(selectedBinding.perUnitCost, j.quantity))
                      ELSE Num(0)
        lamination == IF j.laminationType # "none" THEN LaminationCost(j, s) ELSE Num(0)
        embossing  == IF j.embossingRequired
                      THEN JsAdd(Num(100), JsMul(Frac(2, 10), j.quantity)) ELSE Num(0)
        foiling    == IF j.foilingRequired
                      THEN JsAdd(Num(150), JsMul(Frac(3, 10), j.quantity)) ELSE Num(0)
    IN  JsAdd(JsAdd(JsAdd(JsAdd(JsAdd(JsAdd(JsAdd(Num(0), folding), cutting), binding),
                          lamination), embossing), foiling), j.packagingDeliveryCost)

\* The subtotal with the finishing cost left out
Subtotal_NoFinishing(materialCost, prePressSetupCost, pressCost, finishingCost) ==
    JsAdd(JsAdd(materialCost, prePressSetupCost), pressCost)

\* materialCost + prePressSetupCost + pressCost + finishingCost
Subtotal(materialCost, prePressSetupCost, pressCost, finishingCost) ==
    JsAdd(JsAdd(JsAdd(materialCost, prePressSetupCost), pressCost), finishingCost)

\* subtotal * (percentage / 100)
Percentage(subtotal, percentage) == JsMul(subtotal, JsDiv(percentage, Num(100)))

\* The grand total with the rush fee taken off instead of added
GrandTotal_RushFeeSubtracted(subtotal, taxAmount, discount, rushFee) ==
    JsSub(JsSub(JsAdd(subtotal, taxAmount), discount), rushFee)

\* subtotal + taxAmount - discount + rushFee
GrandTotal(subtotal, taxAmount, discount, rushFee) ==
    JsAdd(JsSub(JsAdd(subtotal, taxAmount), discount), rushFee)

\* The cost per unit guarded by quantity > 1
CostPerUnit_GuardOffByOne(j, grandTotal) ==
    IF JsGt(j.quantity, Num(1)) THEN JsDiv(grandTotal, j.quantity) ELSE Num(0)

\* job.quantity > 0 ? grandTotal / job.quantity : 0
CostPerUnit(j, grandTotal) ==
    IF JsGt(j.quantity, Num(0)) THEN JsDiv(grandTotal, j.quantity) ELSE Num(0)

\* calculateTotalCost with the percentages chained: the discount taken off
\* the taxed subtotal, the rush fee added on the discounted one
calculateTotalCost_Chained(j, s) ==
    LET materialCost      == MaterialCost(j, s)
        prePressSetupCost == PrePressSetupCost(j)
        pressCost         == PressCost(j)
        finishingCost     == FinishingCost(j, s)
        subtotal   == Subtotal(materialCost, prePressSetupCost, pressCost, finishingCost)
        taxAmount  == Percentage(subtotal, j.taxPercentage)
        discount   == Percentage(JsAdd(subtotal, taxAmount), j.discountPercentage)
        rushFee    == Percentage(JsSub(JsAdd(subtotal, taxAmount), discount),
                                 j.rushFeePercentage)
        grandTotal == GrandTotal(subtotal, taxAmount, discount, rushFee)
    IN  [materialCost      |-> materialCost,
         prePressSetupCost |-> prePressSetupCost,
         pressCost         |-> pressCost,
         finishingCost     |-> finishingCost,
         additionalCosts   |-> j.packagingDeliveryCost,
         subtotal          |-> subtotal,
         taxAmount         |-> taxAmount,
         discount          |-> discount,
         rushFee           |-> rushFee,
         grandTotal        |-> grandTotal,
         costPerUnit       |-> CostPerUnit(j, grandTotal)]

calculateTotalCost(j, s) ==
    LET materialCost      == MaterialCost(j, s)
        prePressSetupCost == PrePressSetupCost(j)
        pressCost         == PressCost(j)
        finishingCost     == FinishingCost(j, s)
        subtotal   == Subtotal(materialCost, prePressSetupCost, pressCost, finishingCost)
        taxAmount  == Percentage(subtotal, j.taxPercentage)
        discount   == Percentage(subtotal, j.discountPercentage)
        rushFee    == Percentage(subtotal, j.rushFeePercentage)
        grandTotal == GrandTotal(subtotal, taxAmount, discount, rushFee)
    IN  [materialCost      |-> materialCost,
         prePressSetupCost |-> prePressSetupCost,
         pressCost         |-> pressCost,
         finishingCost     |-> finishingCost,
         additionalCosts   |-> j.packagingDeliveryCost,
         subtotal          |-> subtotal,
         taxAmount         |-> taxAmount,
         discount          |-> discount,
         rushFee           |-> rushFee,
         grandTotal        |-> grandTotal,
         costPerUnit       |-> CostPerUnit(j, grandTotal)]

\* What the call writes with console.log: the sheets needed, the sheet size it
\* used ("Using custom sheet size" / "Using standard sheet size"), whether it
\* logged "Using matrix calculation", the paper cost, and for a laminated job
\* the "cost per sq in" of its "Lamination area" line.
ConsoleLog(j, s) ==
    LET dims == IF Truthy(j.paperGsm) THEN SheetDimensions(j)
                ELSE [source |-> "none", width |-> Undefined, height |-> Undefined]
        matrix == UsesMatrix(j)
    IN  [sheetsNeeded |-> SheetsNeeded(j),
         sizeSource   |-> dims.source,
         width        |-> dims.width,
         height       |-> dims.height,
         matrix       |-> matrix,
         costPerSheet |-> IF matrix THEN CostPerSheet(j, s) ELSE Undefined,
         paperCost    |-> MaterialCost(j, s),
         laminationRate |-> IF j.laminationType # "none"
                            THEN LaminationPerSqMCost(j, s) ELSE Undefined]

----------------------------------------------------------------------------
(* models/PrintingJob: the job record and its default *)

NoMatrix == [defined |-> FALSE, entries |-> {}]

EmptyMatrix == [defined |-> TRUE, entries |-> {}]

\* customCostMatrix of DEFAULT_PRINTING_JOB: gsm -> cost per kg
DefaultMatrix ==
    [defined |-> TRUE,
     entries |-> { <<70, 120>>, <<80, 130>>, <<90, 140>>, <<100, 145>>, <<120, 150>>,
                   <<130, 155>>, <<150, 160>>, <<170, 165>>, <<200, 175>>, <<220, 185>>,
                   <<250, 195>>, <<300, 210>>, <<350, 220>> }]

\* DEFAULT_PRINTING_JOB.  The fields the default leaves out (the custom sheet
\* dimensions, and the hourly press fields of the earlier revision) are
\* undefined.
DEFAULT_PRINTING_JOB ==
    [quantity                |-> Num(500),
     numberOfColors          |-> Num(4),
     isDoubleSided           |-> FALSE,
     sheetSizeId             |-> "a4",
     customSheetWidth        |-> Undefined,
     customSheetHeight       |-> Undefined,
     paperTypeId             |-> <<"coated-gloss", 150>>,
     paperGsm                |-> Num(150),
     paperSizeId             |-> "a4",
     paperCostPerKg          |-> Num(150),
     gsmPriceMode            |-> "flat",
     paperCostIncreasePerGsm |-> Frac(5, 10),
     customCostMatrix        |-> DefaultMatrix,
     designSetupFee          |-> Num(0),
     plateCost               |-> Num(25),
     proofingCharges         |-> Num(15),
     fullPrintingCost        |-> Num(1000),
     pressHourlyRate         |-> Undefined,
     estimatedPrintRunTime   |-> Undefined,
     makeReadyTime           |-> Undefined,
     wastagePercentage       |-> Num(0),
     foldingRequired         |-> FALSE,
     numberOfFolds           |-> Num(0),
     cuttingRequired         |-> FALSE,
     numberOfCuts            |-> Num(0),
     bindingOptionId         |-> "null",
     laminationType          |-> "none",
     isDoubleSidedLamination |-> FALSE,
     embossingRequired       |-> FALSE,
     foilingRequired         |-> FALSE,
     packagingDeliveryCost   |-> Num(0),
     taxPercentage           |-> Num(18),
     discountPercentage      |-> Num(0),
     rushFeePercentage       |-> Num(0)]

\* The settings store after construction and after resetSettings
DefaultSettings ==
    [paperTypes      |-> PAPER_TYPES,
     bindingOptions  |-> BINDING_OPTIONS,
     laminationCosts |-> DEFAULT_LAMINATION_COSTS]

\* A settings store holding the paper types of the earlier revision
LegacySettings == [DefaultSettings EXCEPT !.paperTypes = LEGACY_PAPER_TYPES]

----------------------------------------------------------------------------
(* The inputs the engine is called with *)

\* How many calls of calculateTotalCost a behaviour makes on one job
MaxCalls == 2

\* How many numeric fields a job of AbsentJobs lacks at most
MaxAbsent == 2

\* The mode-specific pricing parameters: mode, paperCostPerKg,
\* paperCostIncreasePerGsm, customCostMatrix
PricingParams ==
    ({"flat"} \X {Undefined, Num(0), Num(100)} \X {Undefined, Frac(5, 10)} \X {DefaultMatrix})
    \cup ({"slope"} \X {Undefined, Num(0), Num(100)} \X {Undefined, Num(0), Frac(5, 10)}
              \X {DefaultMatrix})
    \cup ({"custom"} \X {Undefined, Num(0), Num(100)} \X {Frac(5, 10)}
              \X {NoMatrix, EmptyMatrix, [defined |-> TRUE, entries |-> {<<150, 160>>}]})

\* The custom sheet dimensions: absent, zero, 500 mm x 200 mm
CustomDims ==
    { <<Undefined, Undefined>>, <<Num(500), Undefined>>, <<Num(0), Num(200)>>,
      <<Num(500), Num(200)>> }

\* The job the input jobs are variations of: the default job with amounts
\* small enough for the exact totals to stay within TLC's 32-bit integers
BaseJob ==
    [DEFAULT_PRINTING_JOB EXCEPT !.quantity = Num(20),
                                 !.sheetSizeId = "custom", !.paperSizeId = "custom",
                                 !.customSheetWidth = Num(500),
                                 !.customSheetHeight = Num(200),
                                 !.paperGsm = Num(100), !.paperCostPerKg = Num(100),
                                 !.fullPrintingCost = Num(10)]

\* Jobs that differ from the base job in the fields that decide the cost per sheet
PaperJobs ==
    { [BaseJob EXCEPT
          !.paperGsm = gsm, !.sheetSizeId = sid, !.paperSizeId = pid,
          !.customSheetWidth = cd[1], !.customSheetHeight = cd[2],
          !.gsmPriceMode = pp[1], !.paperCostPerKg = pp[2],
          !.paperCostIncreasePerGsm = pp[3], !.customCostMatrix = pp[4],
          !.paperTypeId = ptid] :
        gsm \in {Undefined, Num(0), Num(80), Num(150)},
        sid \in {"a4", "a3", "custom"},
        pid \in {"undefined", "a4", "custom"},
        cd \in CustomDims, pp \in PricingParams,
        ptid \in {<<"coated-gloss", 150>>, <<"cardstock", 300>>} }

\* Jobs that differ from the base job in the fields the totals are made of
TotalsJobs ==
    { [BaseJob EXCEPT
          !.quantity = q, !.fullPrintingCost = fpc, !.taxPercentage = Num(tax),
          !.discountPercentage = Num(disc), !.rushFeePercentage = Num(rush),
          !.packagingDeliveryCost = pack, !.wastagePercentage = Num(waste),
          !.isDoubleSided = ds,
          !.pressHourlyRate = hr[1], !.estimatedPrintRunTime = hr[2],
          !.makeReadyTime = hr[3]] :
        q \in {Undefined, Num(0), Num(1), Num(20)},
        fpc \in {Undefined, Num(0), Num(10)},
        tax \in {0, 18}, disc \in {0, 10, 100, 150}, rush \in {0, 25},
        pack \in {Undefined, Num(0), Num(50)}, waste \in {0, 10},
        ds \in BOOLEAN,
        hr \in { <<Undefined, Undefined, Undefined>>, <<Num(120), Num(1), Frac(5, 10)>> } }

\* The numeric fields a partially filled job may lack
NumericFields ==
    { "quantity", "numberOfColors", "designSetupFee", "plateCost", "proofingCharges",
      "fullPrintingCost", "wastagePercentage", "numberOfFolds", "numberOfCuts",
      "packagingDeliveryCost", "taxPercentage", "discountPercentage",
      "rushFeePercentage", "paperGsm", "paperCostPerKg", "paperCostIncreasePerGsm",
      "customSheetWidth", "customSheetHeight" }

Without(j, absent) ==
    [f \in DOMAIN j |-> IF f \in absent THEN Undefined ELSE j[f]]

\* Partially filled jobs: a job that uses every numeric field (custom sheet,
\* slope pricing, folding and cutting) lacking up to MaxAbsent of them
AbsentJobs ==
    LET full == [BaseJob EXCEPT !.gsmPriceMode = "slope",
                                !.foldingRequired = TRUE, !.numberOfFolds = Num(2),
                                !.cuttingRequired = TRUE, !.numberOfCuts = Num(1),
                                !.packagingDeliveryCost = Num(50),
                                !.discountPercentage = Num(10),
                                !.rushFeePercentage = Num(25)]
    IN  { Without(full, absent) :
            absent \in {a \in SUBSET NumericFields : Cardinality(a) <= MaxAbsent} }

NoResult == [none |-> TRUE]

NoLog == [none |-> TRUE]

NoSheet == [none |-> TRUE]

\* The cost engine at rest, for the specifications of the other components
EngineIdle ==
    /\ job = DEFAULT_PRINTING_JOB /\ settings = DefaultSettings
    /\ result = NoResult /\ log = NoLog /\ calls = <<>> /\ sheet = NoSheet

Init ==
    /\ \/ job \in PaperJobs /\ settings \in {DefaultSettings, LegacySettings}
       \/ job \in TotalsJobs \cup AbsentJobs /\ settings = DefaultSettings
    /\ result = NoResult
    /\ log = NoLog
    /\ calls = <<>>
    /\ sheet = NoSheet
    /\ AppIdle

\* A call that writes the default cost per kg it falls back on into the job
Calculate_WritesDefault ==
    /\ Len(calls) < MaxCalls
    /\ result' = calculateTotalCost(job, settings)
    /\ log' = ConsoleLog(job, settings)
    /\ calls' = Append(calls, result')
    /\ job' = [job EXCEPT !.paperCostPerKg = OrElse(@, Num(150))]
    /\ UNCHANGED <<settings, sheet>>
    /\ UNCHANGED appVars

\* A call calculateTotalCost(job): it reads the job and the settings store,
\* logs, and returns the breakdown; it assigns to neither.
Calculate ==
    /\ Len(calls) < MaxCalls
    /\ result' = calculateTotalCost(job, settings)
    /\ log' = ConsoleLog(job, settings)
    /\ calls' = Append(calls, result')
    /\ UNCHANGED <<job, settings, sheet>>
    /\ UNCHANGED appVars

Next == Calculate

Spec == Init /\ [][Next]_vars

----------------------------------------------------------------------------
(* The settings store and the finishing options *)

\* The lamination costs a browser holds in localStorage from before the
\* thermal types existed: the store then lacks a value for these
StoredLaminationCosts ==
    [t \in {"matt", "gloss"} |-> IF t = "matt" THEN Frac(3, 10) ELSE Frac(2, 5)]

\* The settings store constructed over that localStorage
StoredSettings == [DefaultSettings EXCEPT !.laminationCosts = StoredLaminationCosts]

\* The partial costs the settings page passes to setLaminationCosts
LaminationUpdates ==
    { [t \in {"matt"} |-> Num(0)], [t \in {"matt"} |-> Frac(1, 2)] }

\* The binding options after the settings page edited the saddle stitch
EditedBindingOptions ==
    [BINDING_OPTIONS EXCEPT ![1] = [@ EXCEPT !.baseCost = Num(100), !.perUnitCost = Num(2)]]

\* Jobs that differ from the base job in their finishing options; the number
\* of folds and of cuts is set whether or not folding and cutting are asked
\* for, and the sheet is one of 10 in x 20 in
FinishingJobs ==
    { [BaseJob EXCEPT
          !.customSheetWidth = Num(254), !.customSheetHeight = Num(508),
          !.foldingRequired = fold, !.numberOfFolds = Num(2),
          !.cuttingRequired = cut, !.numberOfCuts = Num(3),
          !.embossingRequired = emb, !.foilingRequired = foil,
          !.bindingOptionId = bind, !.laminationType = lam,
          !.packagingDeliveryCost = pack] :
        fold \in BOOLEAN, cut \in BOOLEAN, emb \in BOOLEAN, foil \in BOOLEAN,
        bind \in {"null", "saddle-stitch"}, lam \in {"none", "matt"},
        pack \in {Num(0), Num(50)} }

\* Jobs of 500 copies that differ in the binding option they name
BindingJobs ==
    { [BaseJob EXCEPT !.quantity = Num(500), !.bindingOptionId = bind] :
        bind \in {"null", "undefined", "", "saddle-stitch", "hardcover", "comb-binding"} }

\* Laminated jobs that differ in the lamination and in the sheet size; the
\* ones of a standard size take their cost per sheet from the paper type
LaminationJobs ==
    { [BaseJob EXCEPT
          !.laminationType = lam, !.isDoubleSidedLamination = ds,
          !.sheetSizeId = size[1], !.paperSizeId = size[2],
          !.paperGsm = IF size[1] = "custom" THEN Num(100) ELSE Undefined,
          !.wastagePercentage = Num(waste)] :
        lam \in {"matt", "gloss", "thermal-matt"}, ds \in BOOLEAN,
        size \in { <<"custom", "custom">>, <<"a4", "a4">>, <<"a4", "undefined">> },
        waste \in {0, 10} }

InitFinishing ==
    /\ job \in FinishingJobs \cup BindingJobs \cup LaminationJobs
    /\ settings \in {DefaultSettings, StoredSettings}
    /\ result = NoResult
    /\ log = NoLog
    /\ calls = <<>>
    /\ sheet = NoSheet
    /\ AppIdle

\* setLaminationCosts(costs): { ...currentCosts, ...costs }
setLaminationCosts(costs) ==
    /\ settings' =
         [settings EXCEPT !.laminationCosts =
             [t \in DOMAIN settings.laminationCosts \cup DOMAIN costs |->
                 IF t \in DOMAIN costs THEN costs[t] ELSE settings.laminationCosts[t]]]
    /\ UNCHANGED <<job, result, log, calls, sheet>>
    /\ UNCHANGED appVars

\* setBindingOptions(options)
setBindingOptions(options) ==
    /\ settings' = [settings EXCEPT !.bindingOptions = options]
    /\ UNCHANGED <<job, result, log, calls, sheet>>
    /\ UNCHANGED appVars

\* resetSettings()
resetSettings ==
    /\ settings' = DefaultSettings
    /\ UNCHANGED <<job, result, log, calls, sheet>>
    /\ UNCHANGED appVars

NextFinishing ==
    \/ Calculate
    \/ \E costs \in LaminationUpdates : setLaminationCosts(costs)
    \/ setBindingOptions(EditedBindingOptions)
    \/ resetSettings

SpecFinishing == InitFinishing /\ [][NextFinishing]_vars

----------------------------------------------------------------------------
(* Direct calls of calculateCostPerSheet, as PaperMatrixSelector and         *)
(* generatePaperMatrix make them                                             *)

SheetWidths == {0, 105, 210, 254}

SheetHeights == {0, 148, 297}

SheetGsms == {0, 70, 80, 90, 100, 150}

SheetCostsPerKg == {Num(0), Num(1), Num(150), Frac(251, 2)}

SheetMatrices == {NoMatrix, EmptyMatrix, [defined |-> TRUE, entries |-> {<<150, 160>>}]}

SheetCalls ==
    [width : {Num(w) : w \in SheetWidths}, height : {Num(h) : h \in SheetHeights},
     gsm : {Num(g) : g \in SheetGsms}, costPerKg : SheetCostsPerKg,
     gsmPriceMode : {"undefined", "flat", "slope", "custom"},
     paperCostIncreasePerGsm : {Undefined, Num(0), Frac(5, 10)},
     baseGsm : {Undefined, Num(80)},
     customCostMatrix : SheetMatrices,
     done : {FALSE}, cost : {Undefined}]

InitSheet ==
    /\ job = DEFAULT_PRINTING_JOB
    /\ settings = DefaultSettings
    /\ result = NoResult
    /\ log = NoLog
    /\ calls = <<>>
    /\ sheet \in SheetCalls
    /\ AppIdle

\* The call returns
CostPerSheetCall ==
    /\ ~sheet.done
    /\ sheet' = [sheet EXCEPT
                   !.done = TRUE,
                   !.cost = calculateCostPerSheet(sheet.width, sheet.height, sheet.gsm,
                                sheet.costPerKg, sheet.gsmPriceMode,
                                sheet.paperCostIncreasePerGsm, sheet.baseGsm,
                                sheet.customCostMatrix)]
    /\ UNCHANGED <<job, settings, result, log, calls>>
    /\ UNCHANGED appVars

NextSheet == CostPerSheetCall

SpecSheet == InitSheet /\ [][NextSheet]_vars

SheetDone == sheet # NoSheet /\ sheet.done

\* (width/1000) * (height/1000) * gsm / 1000 * costPerKg in closed form:
\* width * height * gsm / 10^9, times costPerKg
ClosedFormCost(width, height, gsm, costPerKg) ==
    JsMul(Frac(width.n * height.n * gsm.n, 1000000000), costPerKg)

----------------------------------------------------------------------------
(* Claims *)

\* C10: in flat mode calculateCostPerSheet(width, height, gsm, costPerKg)
\* equals width * height * gsm * costPerKg / 10^9 for all (bounded integer)
\* widths, heights and gsm values and every costPerKg, and is 0 when the
\* width, the height or the gsm is 0.
C10_FlatCost ==
    (SheetDone /\ sheet.gsmPriceMode \in {"flat", "undefined"}) =>
        /\ sheet.cost = ClosedFormCost(sheet.width, sheet.height, sheet.gsm, sheet.costPerKg)
        /\ (sheet.width.n = 0 \/ sheet.height.n = 0 \/ sheet.gsm.n = 0) => sheet.cost = Num(0)

\* An A4 sheet of 150 gsm at 150 per kg costs 1.403325 in flat mode
C10_Witness ==
    /\ SheetDone /\ sheet.gsmPriceMode = "flat"
    /\ sheet.width = Num(210) /\ sheet.height = Num(297)
    /\ sheet.gsm = Num(150) /\ sheet.costPerKg = Num(150)
    /\ sheet.cost = Frac(1403325, 1000000)

Called == result # NoResult

BreakdownFields ==
    { "materialCost", "prePressSetupCost", "pressCost", "finishingCost",
      "additionalCosts", "subtotal", "taxAmount", "discount", "rushFee",
      "grandTotal", "costPerUnit" }

\* C1: every returned breakdown has subtotal = materialCost +
\* prePressSetupCost + pressCost + finishingCost and grandTotal = subtotal +
\* taxAmount - discount + rushFee (with JavaScript's + and -, under which a
\* sum with a term that is not a number is NaN).
C1_TotalsAddUp ==
    Called =>
        /\ result.subtotal =
             JsAdd(JsAdd(JsAdd(result.materialCost, result.prePressSetupCost),
                         result.pressCost), result.finishingCost)
        /\ result.grandTotal =
             JsAdd(JsSub(JsAdd(result.subtotal, result.taxAmount), result.discount),
                   result.rushFee)

\* A breakdown with a material, a finishing, a tax, a discount and a rush-fee
\* amount, none of them zero
C1_Witness ==
    /\ Called
    /\ \A f \in BreakdownFields : Truthy(result[f])
    /\ result.grandTotal # result.subtotal

ZeroFilled(j) ==
    [f \in DOMAIN j |-> IF f \in NumericFields /\ j[f] = Undefined THEN Num(0) ELSE j[f]]

\* C3: for a job lacking any subset of its numeric fields the call returns a
\* breakdown whose every field is a defined number, the one an absent field
\* contributes zero to.
C3_TotalOnPartialJobs ==
    Called =>
        /\ \A f \in BreakdownFields : IsNum(result[f])
        /\ result = calculateTotalCost(ZeroFilled(job), settings)

\* C4: costPerUnit = grandTotal / quantity when quantity > 0, and 0 when
\* quantity = 0.
C4_CostPerUnit ==
    Called =>
        /\ JsGt(job.quantity, Num(0)) =>
               result.costPerUnit = JsDiv(result.grandTotal, job.quantity)
        /\ job.quantity = Num(0) => result.costPerUnit = Num(0)

\* A job of quantity 0 with a grand total that is not 0: its cost per unit is 0
C4_Witness ==
    /\ Called /\ job.quantity = Num(0)
    /\ Truthy(result.grandTotal) /\ result.costPerUnit = Num(0)

\* The numeric fields of a job, the hourly press fields of the earlier
\* revision included
AllNumericFields ==
    NumericFields \cup {"pressHourlyRate", "estimatedPrintRunTime", "makeReadyTime"}

\* Every numeric input is a number >= 0 (an optional one may be absent)
NonNegativeInputs(j, s) ==
    /\ \A f \in AllNumericFields : j[f] = Undefined \/ JsGe0(j[f])
    /\ \A f \in { "quantity", "numberOfColors", "designSetupFee", "plateCost",
                  "proofingCharges", "fullPrintingCost", "wastagePercentage",
                  "numberOfFolds", "numberOfCuts", "packagingDeliveryCost",
                  "taxPercentage", "discountPercentage", "rushFeePercentage" } :
          IsNum(j[f])
    /\ \A i \in DOMAIN s.paperTypes : JsGe0(s.paperTypes[i].costPerSheet)

\* C5 as stated: non-negative inputs give a breakdown whose every field,
\* grandTotal and costPerUnit included, is non-negative.
C5_AllNonNegative ==
    (Called /\ NonNegativeInputs(job, settings)) =>
        \A f \in BreakdownFields : JsGe0(result[f])

\* C5 as amended: non-negative inputs give non-negative fields other than
\* grandTotal and costPerUnit, and these two are non-negative as well when
\* discountPercentage <= 100 + taxPercentage + rushFeePercentage.
C5_NonNegative ==
    (Called /\ NonNegativeInputs(job, settings)) =>
        /\ \A f \in BreakdownFields \ {"grandTotal", "costPerUnit"} : JsGe0(result[f])
        /\ ~JsGt(job.discountPercentage,
                 JsAdd(Num(100), JsAdd(job.taxPercentage, job.rushFeePercentage))) =>
               (JsGe0(result.grandTotal) /\ JsGe0(result.costPerUnit))

\* A discount of 100 % with a rush fee: the grand total is the rush fee alone
C5_Witness ==
    /\ Called /\ NonNegativeInputs(job, settings)
    /\ job.discountPercentage = Num(100) /\ job.rushFeePercentage = Num(25)
    /\ job.taxPercentage = Num(0)
    /\ Truthy(result.subtotal) /\ result.grandTotal = result.rushFee

\* The pricing parameters C6 requires of each mode
ClaimedParams(j) ==
    \/ j.gsmPriceMode = "flat" /\ Truthy(j.paperCostPerKg)
    \/ j.gsmPriceMode = "slope" /\ Truthy(j.paperCostPerKg) /\ Truthy(j.paperCostIncreasePerGsm)
    \/ j.gsmPriceMode = "custom" /\ j.customCostMatrix.defined
          /\ j.customCostMatrix.entries # {}

\* C6: the cost per sheet comes from calculateCostPerSheet exactly when
\* paperGsm is set, the sheet dimensions are resolvable and the parameters the
\* pricing mode requires are present (custom: a non-empty customCostMatrix);
\* in every other case it is the costPerSheet of the selected paper type, or 0.
C6_MatrixOrFallback ==
    Called =>
        LET dims     == SheetDimensions(job)
            claimed  == /\ Truthy(job.paperGsm)
                        /\ Truthy(dims.width) /\ Truthy(dims.height)
                        /\ ClaimedParams(job)
            paper    == SelectedPaper(job, settings)
            fallback == IF paper.id # <<"undefined", 0>> THEN paper.costPerSheet ELSE Num(0)
        IN  /\ log.matrix <=> claimed
            /\ ~claimed => result.materialCost = JsMul(log.sheetsNeeded, fallback)

\* The cost per kg C7 has custom mode use: the matrix entry of the gsm, else costPerKg
EffectiveCustomCostPerKg(gsm, costPerKg, matrix) ==
    LET hits == {e \in matrix.entries : e[1] = gsm.n}
    IN  IF matrix.defined /\ hits # {} THEN Num((CHOOSE e \in hits : TRUE)[2])
        ELSE costPerKg

\* C7: in custom mode the cost per sheet is width * height * gsm / 10^9 times
\* customCostMatrix[gsm] when the matrix has an entry for the gsm, and times
\* costPerKg when it has none.
C7_CustomCost ==
    (SheetDone /\ sheet.gsmPriceMode = "custom") =>
        sheet.cost = ClosedFormCost(sheet.width, sheet.height, sheet.gsm,
                        EffectiveCustomCostPerKg(sheet.gsm, sheet.costPerKg,
                                                 sheet.customCostMatrix))

\* C8: a job with the hourly press fields and no fullPrintingCost has pressCost
\* = (makeReadyTime + estimatedPrintRunTime) * pressHourlyRate; a job with a
\* fullPrintingCost has pressCost = fullPrintingCost.
C8_BothPressStrategies ==
    Called =>
        /\ ( /\ IsNum(job.makeReadyTime) /\ IsNum(job.estimatedPrintRunTime)
             /\ IsNum(job.pressHourlyRate) /\ job.fullPrintingCost = Undefined )
           => result.pressCost =
                JsMul(JsAdd(job.makeReadyTime, job.estimatedPrintRunTime),
                      job.pressHourlyRate)
        /\ IsNum(job.fullPrintingCost) => result.pressCost = job.fullPrintingCost

\* C9: the sheet dimensions used for the paper cost are the custom ones exactly
\* when sheetSizeId is "custom" and both are present and non-zero, and in every
\* other case those of the standard size that sheetSizeId selects, whatever
\* paperSizeId is.
C9_SheetDimensions ==
    (Called /\ Truthy(job.paperGsm)) =>
        LET Test(size) == size.id = job.sheetSizeId
            size == FindFirst(SHEET_SIZES, Test, [id |-> "undefined", width |-> 0, height |-> 0])
        IN  IF /\ job.sheetSizeId = "custom"
               /\ Truthy(job.customSheetWidth) /\ Truthy(job.customSheetHeight)
            THEN /\ log.sizeSource = "custom"
                 /\ log.width = job.customSheetWidth
                 /\ log.height = job.customSheetHeight
            ELSE /\ log.sizeSource = "standard"
                 /\ log.width = Num(size.width)
                 /\ log.height = Num(size.height)

\* The baseGsm a call uses: 80 when the caller leaves it out
SheetBaseGsm == IF sheet.baseGsm = Undefined THEN Num(80) ELSE sheet.baseGsm

\* The increase per gsm a call uses: 0.5 when the caller leaves it out
SheetIncrease ==
    IF sheet.paperCostIncreasePerGsm = Undefined THEN Frac(5, 10)
    ELSE sheet.paperCostIncreasePerGsm

\* The cost of the same sheet at another gsm, all other arguments equal
SheetCostAt(gsm) ==
    calculateCostPerSheet(sheet.width, sheet.height, gsm, sheet.costPerKg,
                          sheet.gsmPriceMode, sheet.paperCostIncreasePerGsm,
                          sheet.baseGsm, sheet.customCostMatrix)

\* C11: in slope mode a sheet of gsm <= baseGsm costs what it costs in flat
\* mode with the same costPerKg, for all dimensions, costPerKg and increase;
\* above baseGsm the cost per kg is raised by (gsm - baseGsm) * increase.
C11_SlopeAtOrBelowBase ==
    (SheetDone /\ sheet.gsmPriceMode = "slope") =>
        IF JsGt(sheet.gsm, SheetBaseGsm)
        THEN sheet.cost =
               ClosedFormCost(sheet.width, sheet.height, sheet.gsm,
                   JsAdd(sheet.costPerKg,
                         JsMul(JsSub(sheet.gsm, SheetBaseGsm), SheetIncrease)))
        ELSE /\ sheet.cost =
                  calculateCostPerSheet(sheet.width, sheet.height, sheet.gsm,
                      sheet.costPerKg, "flat", sheet.paperCostIncreasePerGsm,
                      sheet.baseGsm, sheet.customCostMatrix)
             /\ sheet.cost = ClosedFormCost(sheet.width, sheet.height, sheet.gsm,
                                            sheet.costPerKg)

\* An A4 sheet of 70 gsm at 150 per kg in slope mode with an increase of 0.5
\* per gsm costs the flat 0.654885
C11_Witness ==
    /\ SheetDone /\ sheet.gsmPriceMode = "slope"
    /\ sheet.width = Num(210) /\ sheet.height = Num(297)
    /\ sheet.gsm = Num(70) /\ sheet.costPerKg = Num(150)
    /\ sheet.paperCostIncreasePerGsm = Frac(5, 10)
    /\ sheet.cost = Frac(654885, 1000000)

\* C12: in slope mode with width > 0, height > 0, costPerKg >= 0 and an
\* increase per gsm > 0, a sheet of a gsm above baseGsm costs strictly less
\* than the same sheet at every greater gsm.
C12_SlopeStrictlyIncreasing ==
    ( /\ SheetDone /\ sheet.gsmPriceMode = "slope"
      /\ sheet.width.n > 0 /\ sheet.height.n > 0 /\ JsGe0(sheet.costPerKg)
      /\ SheetIncrease.n > 0
      /\ JsGt(sheet.gsm, SheetBaseGsm) ) =>
        \A g2 \in SheetGsms :
            g2 > sheet.gsm.n => JsGt(SheetCostAt(Num(g2)), sheet.cost)

\* A sheet of 90 gsm priced in slope mode at a cost per kg of 0: it costs
\* something, and less than the same sheet at 100 gsm
C12_Witness ==
    /\ SheetDone /\ sheet.gsmPriceMode = "slope"
    /\ sheet.width.n > 0 /\ sheet.height.n > 0 /\ sheet.costPerKg = Num(0)
    /\ SheetIncrease.n > 0 /\ sheet.gsm = Num(90)
    /\ Truthy(sheet.cost) /\ JsGt(SheetCostAt(Num(100)), sheet.cost)

\* The breakdown of the same job printed on the other number of sides
OtherSides == calculateTotalCost([job EXCEPT !.isDoubleSided = ~@], settings)

\* C13: materialCost = quantity * (1 + wastagePercentage/100) * costPerSheet,
\* and it is the same for the double-sided and the single-sided job.
C13_MaterialCost ==
    Called =>
        /\ result.materialCost =
             JsMul(JsMul(job.quantity,
                         JsAdd(Num(1), JsDiv(job.wastagePercentage, Num(100)))),
                   CostPerSheet(job, settings))
        /\ result.materialCost = OtherSides.materialCost

\* A double-sided job of 20 copies with 10 % wastage at 1 per sheet: 22
C13_Witness ==
    /\ Called /\ job.isDoubleSided
    /\ job.quantity = Num(20) /\ job.wastagePercentage = Num(10)
    /\ CostPerSheet(job, settings) = Num(1)
    /\ result.materialCost = Num(22)

\* C14: prePressSetupCost = designSetupFee + plateCost * numberOfColors *
\* (2 if isDoubleSided else 1) + proofingCharges; the double-sided job's
\* exceeds the single-sided job's by plateCost * numberOfColors, and the two
\* jobs have the same materialCost, pressCost, finishingCost and
\* additionalCosts.
C14_PrePressSetupCost ==
    Called =>
        /\ result.prePressSetupCost =
             JsAdd(JsAdd(job.designSetupFee,
                         JsMul(JsMul(job.plateCost, job.numberOfColors),
                               IF job.isDoubleSided THEN Num(2) ELSE Num(1))),
                   job.proofingCharges)
        /\ LET single == IF job.isDoubleSided THEN OtherSides ELSE result
               double == IF job.isDoubleSided THEN result ELSE OtherSides
           IN  /\ double.prePressSetupCost =
                    JsAdd(single.prePressSetupCost,
                          JsMul(job.plateCost, job.numberOfColors))
               /\ \A f \in {"materialCost", "pressCost", "finishingCost", "additionalCosts"} :
                     double[f] = single[f]

\* A double-sided job with plates of 25 in 4 colours and proofing of 15: 215,
\* 100 more than single-sided
C14_Witness ==
    /\ Called /\ job.isDoubleSided
    /\ job.plateCost = Num(25) /\ job.numberOfColors = Num(4)
    /\ result.prePressSetupCost = Num(215)
    /\ OtherSides.prePressSetupCost = Num(115)

\* The breakdown of the same job with no tax, no discount and no rush fee
NoPercentages ==
    calculateTotalCost([job EXCEPT !.taxPercentage = Num(0),
                                   !.discountPercentage = Num(0),
                                   !.rushFeePercentage = Num(0)], settings)

\* C19: taxAmount, discount and rushFee are each the subtotal times the
\* percentage / 100, the subtotal being the one the job has whatever its three
\* percentages are; so each amount depends on its own percentage alone.
C19_IndependentPercentages ==
    Called =>
        LET subtotal == NoPercentages.subtotal
        IN  /\ result.subtotal = subtotal
            /\ result.taxAmount = JsDiv(JsMul(subtotal, job.taxPercentage), Num(100))
            /\ result.discount = JsDiv(JsMul(subtotal, job.discountPercentage), Num(100))
            /\ result.rushFee = JsDiv(JsMul(subtotal, job.rushFeePercentage), Num(100))

\* A job taxed at 18 %, discounted by 10 % and rushed at 25 %: the discount is
\* 10 % of the untaxed subtotal and the rush fee 25 % of the undiscounted one
C19_Witness ==
    /\ Called /\ Truthy(result.subtotal)
    /\ job.taxPercentage = Num(18) /\ job.discountPercentage = Num(10)
    /\ job.rushFeePercentage = Num(25)
    /\ result.discount = JsDiv(result.subtotal, Num(10))
    /\ result.rushFee = JsDiv(result.subtotal, Num(4))

\* A step in which a call of calculateTotalCost returns
Returns == calls' # calls

\* The binding term: baseCost + perUnitCost * quantity of the catalog's option
\* that the job names, 0 when it names none
ClaimedBinding(j, s) ==
    LET hits == {i \in DOMAIN s.bindingOptions : s.bindingOptions[i].id = j.bindingOptionId}
    IN  IF hits = {} THEN Num(0)
        ELSE LET b == s.bindingOptions[CHOOSE i \in hits : \A k \in hits : i <= k]
             IN  JsAdd(b.baseCost, JsMul(b.perUnitCost, j.quantity))

\* (width / 25.4) * (height / 25.4) in closed form for whole millimetres:
\* width * height * 100 / 64516; 0 when the dimensions are not resolved
ClaimedAreaInSqIn(j) ==
    LET dims == SheetDimensions(j)
    IN  IF dims.source = "none" THEN Num(0)
        ELSE Frac(dims.width.n * dims.height.n * 100, 64516)

\* The lamination term at a given rate
ClaimedLamination(j, rate) ==
    IF j.laminationType = "none" THEN Num(0)
    ELSE JsDiv(JsMul(JsMul(JsMul(rate, j.quantity),
                           IF j.isDoubleSidedLamination THEN Num(2) ELSE Num(1)),
                     ClaimedAreaInSqIn(j)), Num(100))

\* C15: finishingCost is the sum of independent terms: numberOfFolds *
\* quantity * 1 if foldingRequired, numberOfCuts * 500 if cuttingRequired,
\* 100 + 0.2 * quantity if embossingRequired, 150 + 0.3 * quantity if
\* foilingRequired, the binding term, the lamination term and the packaging
\* cost; an option whose flag is off adds 0 whatever the job's numberOfFolds,
\* numberOfCuts and quantity are.
C15_FinishingCost ==
    [][Returns =>
          result'.finishingCost =
            JsAdd(JsAdd(JsAdd(JsAdd(JsAdd(JsAdd(
                IF job.foldingRequired
                THEN JsMul(JsMul(job.numberOfFolds, job.quantity), Num(1)) ELSE Num(0),
                IF job.cuttingRequired THEN JsMul(job.numberOfCuts, Num(500)) ELSE Num(0)),
                IF job.embossingRequired
                THEN JsAdd(Num(100), JsMul(Frac(2, 10), job.quantity)) ELSE Num(0)),
                IF job.foilingRequired
                THEN JsAdd(Num(150), JsMul(Frac(3, 10), job.quantity)) ELSE Num(0)),
                ClaimedBinding(job, settings)),
                ClaimedLamination(job, LaminationPerSqMCost(job, settings))),
                job.packagingDeliveryCost)]_vars

\* A job of 20 copies with 2 folds set but folding not asked for, 3 cuts,
\* embossing, no foiling, no binding, no lamination and packaging of 50:
\* 1500 + 104 + 50
C15_Witness ==
    /\ Called /\ job.quantity = Num(20)
    /\ ~job.foldingRequired /\ job.numberOfFolds = Num(2)
    /\ job.cuttingRequired /\ job.numberOfCuts = Num(3)
    /\ job.embossingRequired /\ ~job.foilingRequired
    /\ job.bindingOptionId = "null" /\ job.laminationType = "none"
    /\ job.packagingDeliveryCost = Num(50)
    /\ result.finishingCost = Num(1654)

\* C16: a job naming a binding option of the settings catalog has baseCost +
\* perUnitCost * quantity more finishingCost than the same job with no binding
\* option; a job whose bindingOptionId is null or names no catalog entry has
\* the same finishingCost as that job.
C16_Binding ==
    [][Returns =>
          result'.finishingCost =
            JsAdd(calculateTotalCost([job EXCEPT !.bindingOptionId = "null"],
                                     settings).finishingCost,
                  ClaimedBinding(job, settings))]_vars

\* 500 saddle-stitched copies at baseCost 3000 and perUnitCost 10: 8000
C16_Witness ==
    /\ Called /\ job.quantity = Num(500) /\ job.bindingOptionId = "saddle-stitch"
    /\ settings.bindingOptions = BINDING_OPTIONS
    /\ result.finishingCost = Num(8000)

C18_LaminationRate ==
    [][(Returns /\ job.laminationType # "none") =>
          log'.laminationRate =
            IF job.laminationType \in DOMAIN settings.laminationCosts
            THEN settings.laminationCosts[job.laminationType]
            ELSE CASE job.laminationType = "matt"  -> Frac(25, 100)
                   [] job.laminationType = "gloss" -> Frac(35, 100)
                   [] OTHER                        -> Frac(65, 100)]_vars

\* The breakdown of the same job with no packaging and delivery cost
NoPackaging == calculateTotalCost([job EXCEPT !.packagingDeliveryCost = Num(0)], settings)

\* C20: additionalCosts is the job's packagingDeliveryCost, and the job's
\* finishingCost and subtotal are those of the same job without packaging
\* plus the packagingDeliveryCost, once.
C20_PackagingOnce ==
    Called =>
        LET without == NoPackaging
        IN  /\ result.additionalCosts = job.packagingDeliveryCost
            /\ result.finishingCost =
                 JsAdd(without.finishingCost, job.packagingDeliveryCost)
            /\ result.subtotal = JsAdd(without.subtotal, job.packagingDeliveryCost)

\* A job with packaging of 50 and no other finishing: finishingCost 50
C20_Witness ==
    /\ Called /\ job.packagingDeliveryCost = Num(50)
    /\ result.additionalCosts = Num(50) /\ result.finishingCost = Num(50)
    /\ Truthy(NoPackaging.subtotal)
    /\ result.subtotal = JsAdd(NoPackaging.subtotal, Num(50))

----------------------------------------------------------------------------
(* data/paperMatrix: generatePaperMatrix *)

\* The other components at rest
MatrixOthersIdle ==
    /\ jobStore = Idle /\ auth = Idle /\ provider = Idle /\ form = Idle /\ events = Idle

\* The sizes of a list that sheetSizes.forEach does not skip
NonCustomSizes(sheetSizes) ==
    LET Keep(size) == size.id # "custom" IN SelectSeq(sheetSizes, Keep)

\* generatePaperMatrix with the custom size given entries like the others
generatePaperMatrix_KeepsCustom(sheetSizes, gsmValues, costPerKg, gsmPriceMode, paperCostIncreasePerGsm) ==
    LET mode     == IF gsmPriceMode = "undefined" THEN "flat" ELSE gsmPriceMode
        increase == IF paperCostIncreasePerGsm = Undefined
                    THEN Frac(5, 10) ELSE paperCostIncreasePerGsm
        m        == Len(gsmValues)
    IN  [k \in 1..(Len(sheetSizes) * m) |->
            LET size == sheetSizes[((k - 1) \div m) + 1]
                gsm  == gsmValues[((k - 1) % m) + 1]
            IN  [gsm |-> gsm, sizeId |-> size.id,
                 costPerSheet |->
                     calculateCostPerSheet(Num(size.width), Num(size.height), Num(gsm),
                                           costPerKg, mode, increase, Undefined, NoMatrix)]]

\* generatePaperMatrix(sheetSizes, gsmValues, costPerKg, gsmPriceMode = 'flat',
\* paperCostIncreasePerGsm = 0.5): for each size but the custom one, in
\* order, and each gsm, in order, one entry pushed
generatePaperMatrix(sheetSizes, gsmValues, costPerKg, gsmPriceMode, paperCostIncreasePerGsm) ==
    LET mode     == IF gsmPriceMode = "undefined" THEN "flat" ELSE gsmPriceMode
        increase == IF paperCostIncreasePerGsm = Undefined
                    THEN Frac(5, 10) ELSE paperCostIncreasePerGsm
        sizes    == NonCustomSizes(sheetSizes)
        m        == Len(gsmValues)
    IN  [k \in 1..(Len(sizes) * m) |->
            LET size == sizes[((k - 1) \div m) + 1]
                gsm  == gsmValues[((k - 1) % m) + 1]
            IN  [gsm |-> gsm, sizeId |-> size.id,
                 costPerSheet |->
                     calculateCostPerSheet(Num(size.width), Num(size.height), Num(gsm),
                                           costPerKg, mode, increase, Undefined, NoMatrix)]]

\* The lists of sizes a caller passes: the catalog, none, the custom size
\* alone, and a selection with the custom size in the middle
MatrixSizeLists ==
    { SHEET_SIZES, <<>>, <<SHEET_SIZES[6]>>, <<SHEET_SIZES[3], SHEET_SIZES[6], SHEET_SIZES[4]>> }

\* The lists of gsm values a caller passes
MatrixGsmLists == { GSM_OPTIONS, <<>>, <<80>>, <<150, 70>> }

MatrixCalls ==
    [sheetSizes : MatrixSizeLists, gsmValues : MatrixGsmLists,
     costPerKg : {Num(0), Num(100), Num(150)},
     gsmPriceMode : {"undefined", "flat", "slope"},
     paperCostIncreasePerGsm : {Undefined, Num(0), Num(1)},
     done : {FALSE}, out : {<<>>}]

InitMatrix ==
    /\ EngineIdle
    /\ MatrixOthersIdle
    /\ paperMatrix \in MatrixCalls

\* The call returns
GeneratePaperMatrixCall ==
    /\ ~paperMatrix.done
    /\ paperMatrix' =
         [paperMatrix EXCEPT
            !.done = TRUE,
            !.out = generatePaperMatrix(paperMatrix.sheetSizes, paperMatrix.gsmValues,
                        paperMatrix.costPerKg, paperMatrix.gsmPriceMode,
                        paperMatrix.paperCostIncreasePerGsm)]
    /\ UNCHANGED <<engineVars, jobStore, auth, provider, form, events>>

NextMatrix == GeneratePaperMatrixCall

SpecMatrix == InitMatrix /\ [][NextMatrix]_vars

MatrixDone == paperMatrix # Idle /\ paperMatrix.done

\* C21: the matrix has exactly one entry for every size other than the custom
\* one and every gsm value given (65 for the five standard sizes and the 13
\* gsm values), no entry of sizeId "custom", and each entry's costPerSheet is
\* calculateCostPerSheet of its size's width and height and its gsm.
C21_PaperMatrix ==
    MatrixDone =>
        LET sizes == paperMatrix.sheetSizes
            gsms  == paperMatrix.gsmValues
            out   == paperMatrix.out
            kept  == {i \in DOMAIN sizes : sizes[i].id # "custom"}
        IN  /\ Len(out) = Cardinality(kept) * Len(gsms)
            /\ \A k \in DOMAIN out : out[k].sizeId # "custom"
            /\ \A i \in kept, j \in DOMAIN gsms :
                  LET hits == {k \in DOMAIN out :
                                 out[k].sizeId = sizes[i].id /\ out[k].gsm = gsms[j]}
                  IN  /\ Cardinality(hits) = 1
                      /\ \A k \in hits :
                            out[k].costPerSheet =
                              calculateCostPerSheet(Num(sizes[i].width), Num(sizes[i].height),
                                  Num(gsms[j]), paperMatrix.costPerKg,
                                  paperMatrix.gsmPriceMode,
                                  paperMatrix.paperCostIncreasePerGsm, Undefined, NoMatrix)
            /\ (sizes = SHEET_SIZES /\ gsms = GSM_OPTIONS) => Len(out) = 65

\* The matrix of the whole catalog at 150 per kg: 65 entries, the first the
\* A6 sheet of 70 gsm
C21_Witness ==
    /\ MatrixDone
    /\ paperMatrix.sheetSizes = SHEET_SIZES /\ paperMatrix.gsmValues = GSM_OPTIONS
    /\ paperMatrix.costPerKg = Num(150) /\ paperMatrix.gsmPriceMode = "flat"
    /\ Len(paperMatrix.out) = 65
    /\ paperMatrix.out[1] =
         [gsm |-> 70, sizeId |-> "a6", costPerSheet |-> Frac(105 * 148 * 70 * 150, 1000000000)]

----------------------------------------------------------------------------
(* store/useJobStore: the job store over localStorage *)

JobStoreOthersIdle ==
    /\ paperMatrix = Idle /\ auth = Idle /\ provider = Idle /\ form = Idle /\ events = Idle

\* The fields of a job that hold a string
StringFields == {"sheetSizeId", "paperSizeId", "gsmPriceMode", "bindingOptionId", "laminationType"}

\* Whether the field f of the job j holds undefined
HoldsUndefined(j, f) ==
    IF f \in AllNumericFields THEN j[f] = Undefined
    ELSE IF f \in StringFields THEN j[f] = "undefined"
    ELSE IF f = "customCostMatrix" THEN ~j[f].defined
    ELSE FALSE

\* JSON.stringify(job): a key holding undefined is left out
JsonStringify(j) ==
    [kind |-> "json", value |-> [f \in {g \in DOMAIN j : ~HoldsUndefined(j, g)} |-> j[f]]]

\* localStorage without the item, and with an item that is not JSON
NoItem == [kind |-> "none", value |-> <<>>]

GarbageItem == [kind |-> "garbage", value |-> <<>>]

\* loadJobFromStorage(): { ...DEFAULT_PRINTING_JOB, ...parsed }, and the
\* default when there is no item or JSON.parse throws
loadJobFromStorage(storage) ==
    IF storage.kind # "json" THEN DEFAULT_PRINTING_JOB
    ELSE [f \in DOMAIN DEFAULT_PRINTING_JOB |->
            IF f \in DOMAIN storage.value THEN storage.value[f]
            ELSE DEFAULT_PRINTING_JOB[f]]

\* The jobs setCurrentJob is called with
StoreJobs ==
    { DEFAULT_PRINTING_JOB,
      [DEFAULT_PRINTING_JOB EXCEPT !.quantity = Num(20), !.customSheetWidth = Num(500)],
      [DEFAULT_PRINTING_JOB EXCEPT !.paperCostPerKg = Undefined] }

\* The partial jobs updateJob is called with
StoreUpdates ==
    { [f \in {"quantity"} |-> Num(20)],
      [f \in {"quantity"} |-> Num(500)],
      [f \in {"bindingOptionId"} |-> "saddle-stitch"],
      [f \in {"bindingOptionId"} |-> "null"],
      [f \in {"isDoubleSided"} |-> TRUE],
      [f \in {"paperCostPerKg"} |-> Num(100)],
      [f \in {"paperCostPerKg"} |-> Undefined],
      [f \in {"customSheetWidth"} |-> Num(500)],
      [f \in {"customSheetWidth"} |-> Undefined] }

\* The store after construction: currentJob: loadJobFromStorage()
InitJobStore ==
    /\ EngineIdle
    /\ JobStoreOthersIdle
    /\ \E storage \in {NoItem, GarbageItem} \cup {JsonStringify(j) : j \in StoreJobs} :
          jobStore = [currentJob |-> loadJobFromStorage(storage),
                      storage    |-> storage,
                      last       |-> "create"]

\* setCurrentJob(job)
setCurrentJob(j) ==
    /\ jobStore' = [currentJob |-> j, storage |-> JsonStringify(j), last |-> "setCurrentJob"]
    /\ UNCHANGED <<engineVars, paperMatrix, auth, provider, form, events>>

\* updateJob(updates): { ...currentJob, ...updates }, saved at once
updateJob(updates) ==
    LET updatedJob == [f \in DOMAIN jobStore.currentJob |->
                         IF f \in DOMAIN updates THEN updates[f]
                         ELSE jobStore.currentJob[f]]
    IN  /\ jobStore' = [currentJob |-> updatedJob, storage |-> JsonStringify(updatedJob),
                        last |-> "updateJob"]
        /\ UNCHANGED <<engineVars, paperMatrix, auth, provider, form, events>>

\* saveJob()
saveJob ==
    /\ jobStore' = [jobStore EXCEPT !.storage = JsonStringify(jobStore.currentJob),
                                    !.last = "saveJob"]
    /\ UNCHANGED <<engineVars, paperMatrix, auth, provider, form, events>>

\* loadJob()
loadJob ==
    /\ jobStore' = [jobStore EXCEPT !.currentJob = loadJobFromStorage(jobStore.storage),
                                    !.last = "loadJob"]
    /\ UNCHANGED <<engineVars, paperMatrix, auth, provider, form, events>>

\* resetJob()
resetJob ==
    /\ jobStore' = [currentJob |-> DEFAULT_PRINTING_JOB, storage |-> NoItem,
                    last |-> "resetJob"]
    /\ UNCHANGED <<engineVars, paperMatrix, auth, provider, form, events>>

NextJobStore ==
    \/ \E j \in StoreJobs : setCurrentJob(j)
    \/ \E updates \in StoreUpdates : updateJob(updates)
    \/ saveJob
    \/ loadJob
    \/ resetJob

SpecJobStore == InitJobStore /\ [][NextJobStore]_vars

\* C22: a loadJob that follows setCurrentJob, updateJob and saveJob calls
\* leaves currentJob as it was: the job read back from storage equals the
\* job in memory field for field, fields holding undefined included.
C22_SaveLoadVerbatim ==
    [][(jobStore'.last = "loadJob" /\ jobStore.last \in {"setCurrentJob", "updateJob", "saveJob"})
          => jobStore'.currentJob = jobStore.currentJob]_vars

----------------------------------------------------------------------------
(* utils/authService: the 401 interceptor and refreshAccessToken *)

AuthOthersIdle ==
    /\ paperMatrix = Idle /\ jobStore = Idle /\ provider = Idle /\ form = Idle /\ events = Idle

\* How many requests are sent through the api instance
NumRequests == 2

Requests == 1..NumRequests

\* What the server does with POST /refresh: 200 with success true, 200 with
\* success false, or a failure (an error status, no response)
RefreshOutcomes == {"success-true", "success-false", "failure"}

\* A request before it is sent.  pc: where the request is; retry:
\* originalRequest._retry; refreshCalls, retries: how often its interceptor
\* called refreshAccessToken and api(originalRequest); resolves: how often
\* its subscriber callback or its refresh call delivered a boolean; val: that
\* boolean; served: what the server did with the refresh that served it
NewRequest ==
    [pc |-> "idle", retry |-> FALSE, refreshCalls |-> 0, retries |-> 0,
     resolves |-> 0, val |-> FALSE, served |-> "none"]

InitAuth ==
    /\ EngineIdle
    /\ AuthOthersIdle
    /\ auth = [isRefreshing |-> FALSE, refreshSubscribers |-> <<>>, posts |-> {},
               req |-> [r \in Requests |-> NewRequest]]

\* How often the callback of request r is in a list of subscribers
Occurrences(subscribers, r) ==
    Cardinality({i \in DOMAIN subscribers : subscribers[i] = r})

\* notifySubscribers(success): every callback of the list is called with
\* success (it resolves the promise the queued caller awaits), and the list
\* is emptied.  The result is the requests after the calls.
notifySubscribers(a, success, outcome) ==
    [r \in Requests |->
        IF Occurrences(a.refreshSubscribers, r) > 0
        THEN [a.req[r] EXCEPT !.pc = "notified", !.val = success, !.served = outcome,
                              !.resolves = @ + Occurrences(a.refreshSubscribers, r)]
        ELSE a.req[r]]

\* api(request): the request goes out
Send(r) ==
    /\ auth.req[r].pc = "idle"
    /\ auth' = [auth EXCEPT !.req[r].pc = "sent"]
    /\ UNCHANGED <<engineVars, paperMatrix, jobStore, provider, form, events>>

\* The response interceptor's success handler: (response) => response
Respond2xx(r) ==
    /\ auth.req[r].pc = "sent"
    /\ auth' = [auth EXCEPT !.req[r].pc = "resolved"]
    /\ UNCHANGED <<engineVars, paperMatrix, jobStore, provider, form, events>>

\* The error handler on an error that is no 401 (a 5xx, another status, no
\* response): Promise.reject(error)
RespondOtherError(r) ==
    /\ auth.req[r].pc = "sent"
    /\ auth' = [auth EXCEPT !.req[r].pc = "rejected"]
    /\ UNCHANGED <<engineVars, paperMatrix, jobStore, provider, form, events>>

\* refreshAccessToken() without the isRefreshing test
refreshAccessToken_NoGuard(a, r) ==
    [a EXCEPT !.isRefreshing = TRUE, !.posts = @ \cup {r}, !.req[r].pc = "refreshing"]

\* refreshAccessToken() called for request r, up to its first await: queued
\* as a subscriber while a refresh is in flight, else isRefreshing = true and
\* POST /refresh goes out
refreshAccessToken(a, r) ==
    IF a.isRefreshing
    THEN [a EXCEPT !.refreshSubscribers = Append(@, r), !.req[r].pc = "queued"]
    ELSE [a EXCEPT !.isRefreshing = TRUE, !.posts = @ \cup {r}, !.req[r].pc = "refreshing"]

\* The error handler on a 401: the first time, _retry is set and
\* refreshAccessToken() awaited; on a request that has _retry set,
\* Promise.reject(error)
Respond401(r) ==
    /\ auth.req[r].pc = "sent"
    /\ auth' =
         IF ~auth.req[r].retry
         THEN refreshAccessToken([auth EXCEPT !.req[r].retry = TRUE,
                                              !.req[r].refreshCalls = @ + 1], r)
         ELSE [auth EXCEPT !.req[r].pc = "rejected"]
    /\ UNCHANGED <<engineVars, paperMatrix, jobStore, provider, form, events>>

\* The refresh cycle's end with the list of subscribers left as it is
RefreshCompletes_KeepsSubscribers(a, r, outcome) ==
    [a EXCEPT !.req = [notifySubscribers(a, outcome # "failure", outcome) EXCEPT
                          ![r].pc = "notified", ![r].val = (outcome = "success-true"),
                          ![r].served = outcome, ![r].resolves = @ + 1],
              !.isRefreshing = FALSE,
              !.posts = @ \ {r}]

\* refreshAccessToken() after its await, for the caller r that sent POST
\* /refresh: on a response notifySubscribers(true), isRefreshing = false,
\* return response.data.success; on a failure notifySubscribers(false),
\* isRefreshing = false, return false
RefreshCompletes(a, r, outcome) ==
    [a EXCEPT !.req = [notifySubscribers(a, outcome # "failure", outcome) EXCEPT
                          ![r].pc = "notified", ![r].val = (outcome = "success-true"),
                          ![r].served = outcome, ![r].resolves = @ + 1],
              !.refreshSubscribers = <<>>,
              !.isRefreshing = FALSE,
              !.posts = @ \ {r}]

\* POST /refresh completes
RefreshResponse(r, outcome) ==
    /\ r \in auth.posts
    /\ auth' = RefreshCompletes(auth, r, outcome)
    /\ UNCHANGED <<engineVars, paperMatrix, jobStore, provider, form, events>>

\* The interceptor after the refresh, never sending the request again
AfterRefresh_NeverRetries(r) ==
    /\ auth.req[r].pc = "notified"
    /\ auth' = [auth EXCEPT !.req[r].pc = "loggingOut"]
    /\ UNCHANGED <<engineVars, paperMatrix, jobStore, provider, form, events>>

\* The interceptor after "await refreshAccessToken()": the request is sent
\* again when the refresh succeeded, else logout() is awaited
AfterRefresh(r) ==
    /\ auth.req[r].pc = "notified"
    /\ auth' = IF auth.req[r].val
               THEN [auth EXCEPT !.req[r].pc = "sent", !.req[r].retries = @ + 1]
               ELSE [auth EXCEPT !.req[r].pc = "loggingOut"]
    /\ UNCHANGED <<engineVars, paperMatrix, jobStore, provider, form, events>>

\* POST /logout completes (either way): handleLogout(), handleAuthFailure(),
\* Promise.reject(error)
LogoutResponse(r) ==
    /\ auth.req[r].pc = "loggingOut"
    /\ auth' = [auth EXCEPT !.req[r].pc = "rejected"]
    /\ UNCHANGED <<engineVars, paperMatrix, jobStore, provider, form, events>>

NextAuth ==
    \E r \in Requests :
        \/ Send(r)
        \/ Respond2xx(r)
        \/ RespondOtherError(r)
        \/ Respond401(r)
        \/ \E outcome \in RefreshOutcomes : RefreshResponse(r, outcome)
        \/ AfterRefresh(r)
        \/ LogoutResponse(r)

\* Every request that is out gets an answer, and every continuation runs
FairAuth ==
    \A r \in Requests :
        /\ WF_vars(Respond2xx(r) \/ RespondOtherError(r) \/ Respond401(r))
        /\ WF_vars(\E outcome \in RefreshOutcomes : RefreshResponse(r, outcome))
        /\ WF_vars(AfterRefresh(r))
        /\ WF_vars(LogoutResponse(r))

SpecAuth == InitAuth /\ [][NextAuth]_vars /\ FairAuth

\* Requests whose interceptor is past its refresh and about to go on
Finished(r) == auth.req[r].pc \in {"resolved", "rejected"}

\* C23: a request that got a 401 is sent again after a successful refresh,
\* and at most once: each request calls refreshAccessToken at most once and
\* is retried at most once, an error on the retried request is rejected with
\* no further refresh, and every request that is sent resolves or rejects
\* in the end.
C23_RetryOnce ==
    /\ [](\A r \in Requests : auth.req[r].refreshCalls <= 1 /\ auth.req[r].retries <= 1)
    /\ [][\A r \in Requests :
            /\ (auth.req[r].pc = "notified" /\ auth.req[r].served = "success-true"
                 /\ auth'.req[r].pc # "notified")
               => (auth'.req[r].pc = "sent" /\ auth'.req[r].retries = auth.req[r].retries + 1)
            /\ (auth.req[r].pc = "sent" /\ auth.req[r].retry /\ auth'.req[r].pc # "sent")
               => (/\ auth'.req[r].pc \in {"resolved", "rejected"}
                   /\ auth'.req[r].refreshCalls = auth.req[r].refreshCalls
                   /\ auth'.posts = auth.posts
                   /\ auth'.refreshSubscribers = auth.refreshSubscribers)]_vars
    /\ \A r \in Requests : (auth.req[r].pc = "sent") ~> Finished(r)

\* A request was retried after a successful refresh and its retry rejected
C23_Witness ==
    \E r \in Requests :
        /\ auth.req[r].retries = 1 /\ auth.req[r].refreshCalls = 1
        /\ auth.req[r].served = "success-true" /\ auth.req[r].pc = "rejected"

\* C24: at most one POST /refresh is in flight at any time, and a call of
\* refreshAccessToken made while a refresh is in flight sends no request and
\* is appended to the subscribers.
C24_SingleFlight ==
    /\ [](Cardinality(auth.posts) <= 1)
    /\ [][\A r \in Requests :
            (auth.isRefreshing /\ auth'.req[r].refreshCalls = auth.req[r].refreshCalls + 1)
            => (/\ auth'.posts = auth.posts
                /\ auth'.refreshSubscribers = Append(auth.refreshSubscribers, r))]_vars

\* One refresh is in flight and another caller is queued behind it
C24_Witness ==
    /\ Cardinality(auth.posts) = 1
    /\ Len(auth.refreshSubscribers) = 1
    /\ \E r \in Requests : auth.req[r].pc = "queued"

\* C25: the boolean a queued caller is resolved with equals the boolean
\* returned to the caller that started the refresh, which is true exactly
\* when the server answered with success true.
C25_SameOutcome ==
    \A r \in Requests :
        auth.req[r].resolves > 0 => (auth.req[r].val <=> (auth.req[r].served = "success-true"))

----------------------------------------------------------------------------
(* utils/AuthContext: AuthProvider *)

ProviderOthersIdle ==
    /\ paperMatrix = Idle /\ jobStore = Idle /\ auth = Idle /\ form = Idle /\ events = Idle

\* How many times refreshUser is called, the call of initAuth included
MaxRefreshUser == 4

RefreshUserCalls == 1..MaxRefreshUser

\* What getCurrentUser() returns: response.data, or null on any error
UserData == {"user", "null"}

\* The provider after its mount effect has run: the useState initial values,
\* setIsLoading(true), and refreshUser() of initAuth (call 1) waiting for
\* GET /users/me.  cleared records that a 'logout' or 'token-expired' event
\* was handled with no 'login' event or refreshUser call after it.
InitProvider ==
    /\ EngineIdle
    /\ ProviderOthersIdle
    /\ provider = [user |-> "null", isAuthenticated |-> FALSE, isLoading |-> TRUE,
                   getCurrentUser |-> [c \in RefreshUserCalls |->
                                          IF c = 1 THEN "inFlight" ELSE "none"],
                   cleared |-> FALSE]

\* The number of the next call of refreshUser, 0 when the bound is reached
NextRefreshUser ==
    IF \E c \in RefreshUserCalls : provider.getCurrentUser[c] = "none"
    THEN CHOOSE c \in RefreshUserCalls :
            /\ provider.getCurrentUser[c] = "none"
            /\ \A b \in RefreshUserCalls : provider.getCurrentUser[b] = "none" => c <= b
    ELSE 0

\* refreshUser() up to its await: getCurrentUser() sends GET /users/me
refreshUser ==
    /\ NextRefreshUser # 0
    /\ provider' = [provider EXCEPT !.getCurrentUser[NextRefreshUser] = "inFlight",
                                    !.cleared = FALSE]
    /\ UNCHANGED <<engineVars, paperMatrix, jobStore, auth, form, events>>

\* The listener on a 'login' event: refreshUser()
OnLogin ==
    /\ NextRefreshUser # 0
    /\ provider' = [provider EXCEPT !.getCurrentUser[NextRefreshUser] = "inFlight",
                                    !.cleared = FALSE]
    /\ UNCHANGED <<engineVars, paperMatrix, jobStore, auth, form, events>>

\* The listener on a 'logout' or 'token-expired' event: setUser(null),
\* setIsAuthenticated(false)
OnLogoutOrExpired(event) ==
    /\ event \in {"logout", "token-expired"}
    /\ provider' = [provider EXCEPT !.user = "null", !.isAuthenticated = FALSE,
                                    !.cleared = TRUE]
    /\ UNCHANGED <<engineVars, paperMatrix, jobStore, auth, form, events>>

\* handleLogout(): logout() emits 'logout' when POST /logout is over, then
\* setUser(null), setIsAuthenticated(false)
handleLogout ==
    /\ provider' = [provider EXCEPT !.user = "null", !.isAuthenticated = FALSE,
                                    !.cleared = TRUE]
    /\ UNCHANGED <<engineVars, paperMatrix, jobStore, auth, form, events>>

\* refreshUser() after its await, for call c: setUser(userData),
\* setIsAuthenticated(!!userData); initAuth then does setIsLoading(false)
GetCurrentUserReturns(c, userData) ==
    /\ provider.getCurrentUser[c] = "inFlight"
    /\ provider' = [provider EXCEPT !.getCurrentUser[c] = "done",
                                    !.user = userData,
                                    !.isAuthenticated = (userData # "null"),
                                    !.isLoading = IF c = 1 THEN FALSE ELSE @]
    /\ UNCHANGED <<engineVars, paperMatrix, jobStore, auth, form, events>>

NextProvider ==
    \/ refreshUser
    \/ OnLogin
    \/ \E event \in {"logout", "token-expired"} : OnLogoutOrExpired(event)
    \/ handleLogout
    \/ \E c \in RefreshUserCalls, userData \in UserData : GetCurrentUserReturns(c, userData)

SpecProvider == InitProvider /\ [][NextProvider]_vars

\* C27: once a 'logout' or 'token-expired' event has been handled, user is
\* null and isAuthenticated is false until the next 'login' event or
\* refreshUser call.
C27_StaysLoggedOut ==
    provider.cleared => (provider.user = "null" /\ ~provider.isAuthenticated)

----------------------------------------------------------------------------
(* components/JobDetailsForm: the effects that keep paperSizeId, paperGsm and
   paperMaterialType in step with sheetSizeId and paperTypeId.  Of the job
   only these five fields are kept.  A string with dashes is the sequence of
   its parts: a material type is a sequence of words (<<>> where the job has
   no paperMaterialType key), a paperTypeId "coated-gloss-150" is
   [material |-> <<"coated", "gloss">>, gsm |-> 150]. *)

FormOthersIdle ==
    /\ paperMatrix = Idle /\ jobStore = Idle /\ auth = Idle /\ provider = Idle /\ events = Idle

FormSizes == {"a4", "a3"}

FormMaterials == {<<"coated", "gloss">>, <<"uncoated">>}

FormGsms == {90, 150}

\* The jobs the form is mounted with: the job loadJob() read, which is the
\* stored object over the defaults
FormJobs ==
    [sheetSizeId : FormSizes, paperSizeId : FormSizes,
     paperTypeId : [material : FormMaterials, gsm : FormGsms],
     paperGsm : FormGsms, paperMaterialType : FormMaterials \cup {<<>>}]

\* The three effects, in the order the component declares them
FormEffects == <<"paperSizeId", "paperMaterialType", "paperGsm">>

\* paperTypeId.split('-')
SplitParts(paperTypeId) == Len(paperTypeId.material) + 1

\* The effects of a commit whose dependencies differ from the render before
ChangedEffects(before, after) ==
    (IF before.sheetSizeId # after.sheetSizeId THEN <<"paperSizeId">> ELSE <<>>)
    \o (IF before.paperTypeId # after.paperTypeId
        THEN <<"paperMaterialType", "paperGsm">> ELSE <<>>)

\* The form mounts: job is the stored job, and every effect is due
InitForm ==
    /\ EngineIdle
    /\ FormOthersIdle
    /\ \E j \in FormJobs :
          form = [currentJob |-> j, job |-> j, pending |-> FormEffects]

\* updateJob(updates): { ...state.currentJob, ...updates }; a key the
\* updates do not have keeps the stored value
updateJobForm(currentJob, updates) ==
    [updates EXCEPT !.paperMaterialType =
        IF updates.paperMaterialType = <<>> THEN currentJob.paperMaterialType ELSE @]

\* handleInputChange(field, value): onJobChange({ ...job, [field]: value })
\* when job[field] !== value, with job the one of the render
handleInputChange(field, value) ==
    IF form.job[field] # value
    THEN updateJobForm(form.currentJob, [form.job EXCEPT ![field] = value])
    ELSE form.currentJob

\* useEffect on [job.sheetSizeId]
SyncPaperSizeId ==
    /\ form.pending # <<>> /\ Head(form.pending) = "paperSizeId"
    /\ form' = [form EXCEPT !.pending = Tail(@),
                            !.currentJob = handleInputChange("paperSizeId", form.job.sheetSizeId)]
    /\ UNCHANGED <<engineVars, paperMatrix, jobStore, auth, provider, events>>

\* useEffect on [job.paperTypeId] that extracts the material type
SyncPaperMaterialType ==
    /\ form.pending # <<>> /\ Head(form.pending) = "paperMaterialType"
    /\ form' = [form EXCEPT !.pending = Tail(@),
                            !.currentJob =
                                IF /\ SplitParts(form.job.paperTypeId) >= 2
                                   /\ form.job.paperTypeId.material # <<>>
                                THEN handleInputChange("paperMaterialType",
                                                       form.job.paperTypeId.material)
                                ELSE @]
    /\ UNCHANGED <<engineVars, paperMatrix, jobStore, auth, provider, events>>

\* useEffect on [job.paperTypeId] that extracts the GSM
SyncPaperGsm ==
    /\ form.pending # <<>> /\ Head(form.pending) = "paperGsm"
    /\ form' = [form EXCEPT !.pending = Tail(@),
                            !.currentJob = handleInputChange("paperGsm", form.job.paperTypeId.gsm)]
    /\ UNCHANGED <<engineVars, paperMatrix, jobStore, auth, provider, events>>

\* The component renders again with the stored job; the effects whose
\* dependencies changed are due
Render ==
    /\ form.pending = <<>>
    /\ form.job # form.currentJob
    /\ form' = [form EXCEPT !.job = form.currentJob,
                            !.pending = ChangedEffects(form.job, form.currentJob)]
    /\ UNCHANGED <<engineVars, paperMatrix, jobStore, auth, provider, events>>

\* No effect is due and the render shows the stored job
Settled == form.pending = <<>> /\ form.job = form.currentJob

\* The sheet size dropdown: sheetSizeId and paperSizeId together
SelectSheetSize(value) ==
    /\ Settled
    /\ form' = [form EXCEPT !.currentJob =
                    updateJobForm(@, [form.job EXCEPT !.sheetSizeId = value,
                                                      !.paperSizeId = value])]
    /\ UNCHANGED <<engineVars, paperMatrix, jobStore, auth, provider, events>>

\* The paper material dropdown: paperMaterialType and paperTypeId together
SelectPaperMaterial(value) ==
    /\ Settled
    /\ form' = [form EXCEPT !.currentJob =
                    updateJobForm(@, [form.job EXCEPT
                        !.paperMaterialType = value,
                        !.paperTypeId = [material |-> value, gsm |-> form.job.paperGsm]])]
    /\ UNCHANGED <<engineVars, paperMatrix, jobStore, auth, provider, events>>

\* The paper GSM dropdown: paperGsm and paperTypeId together
SelectPaperGsm(gsm) ==
    /\ Settled
    /\ form' = [form EXCEPT !.currentJob =
                    updateJobForm(@, [form.job EXCEPT
                        !.paperGsm = gsm,
                        !.paperTypeId =
                            [material |-> IF form.job.paperMaterialType # <<>>
                                          THEN form.job.paperMaterialType
                                          ELSE <<"coated", "gloss">>,
                             gsm |-> gsm]])]
    /\ UNCHANGED <<engineVars, paperMatrix, jobStore, auth, provider, events>>

\* onMatrixCellSelected(gsm, sizeId): all five fields together
MatrixCellSelected(gsm, sizeId) ==
    /\ Settled
    /\ form' = [form EXCEPT !.currentJob =
                    LET paperMaterialType == IF form.job.paperMaterialType # <<>>
                                             THEN form.job.paperMaterialType
                                             ELSE <<"coated", "gloss">>
                    IN updateJobForm(@, [sheetSizeId |-> sizeId, paperSizeId |-> sizeId,
                                         paperGsm |-> gsm,
                                         paperMaterialType |-> paperMaterialType,
                                         paperTypeId |-> [material |-> paperMaterialType,
                                                          gsm |-> gsm]])]
    /\ UNCHANGED <<engineVars, paperMatrix, jobStore, auth, provider, events>>

NextForm ==
    \/ SyncPaperSizeId
    \/ SyncPaperMaterialType
    \/ SyncPaperGsm
    \/ Render
    \/ \E value \in FormSizes : SelectSheetSize(value)
    \/ \E value \in FormMaterials : SelectPaperMaterial(value)
    \/ \E gsm \in FormGsms : SelectPaperGsm(gsm)
    \/ \E gsm \in FormGsms, sizeId \in FormSizes : MatrixCellSelected(gsm, sizeId)

SpecForm == InitForm /\ [][NextForm]_vars

\* C28: once no effect is pending, the stored job has paperSizeId =
\* sheetSizeId, paperGsm = the numeric suffix of paperTypeId and
\* paperMaterialType = the part of paperTypeId before that suffix.
C28_EffectsConverge ==
    Settled =>
        /\ form.currentJob.paperSizeId = form.currentJob.sheetSizeId
        /\ form.currentJob.paperGsm = form.currentJob.paperTypeId.gsm
        /\ form.currentJob.paperMaterialType = form.currentJob.paperTypeId.material

----------------------------------------------------------------------------
(* components/PaperMatrixSelector: the matrix of costs per sheet the form
   shows, next to the engine's calculation for the same job *)

SelectorOthersIdle ==
    /\ jobStore = Idle /\ auth = Idle /\ provider = Idle /\ form = Idle /\ events = Idle

\* The jobs the form shows the matrix for
SelectorJobs ==
    { [BaseJob EXCEPT
          !.paperGsm = gsm, !.sheetSizeId = sid, !.paperSizeId = pid,
          !.customSheetWidth = cd[1], !.customSheetHeight = cd[2],
          !.gsmPriceMode = pp[1], !.paperCostPerKg = pp[2],
          !.paperCostIncreasePerGsm = pp[3], !.customCostMatrix = pp[4]] :
        gsm \in {Undefined, Num(80), Num(150)},
        sid \in {"a4", "custom"},
        pid \in {"a4", "a3"},
        cd \in {<<Undefined, Undefined>>, <<Num(500), Num(200)>>},
        pp \in PricingParams }

\* The component as mounted: useState({}) for matrixValues
InitSelector ==
    /\ job \in SelectorJobs
    /\ settings = DefaultSettings
    /\ result = NoResult /\ log = NoLog /\ calls = <<>> /\ sheet = NoSheet
    /\ SelectorOthersIdle
    /\ paperMatrix = [matrixValues |-> <<>>, calculated |-> FALSE]

\* relevantSizes x GSM_OPTIONS: the keys `${size.id}-${gsm}`
MatrixKeys ==
    LET relevantSizes == NonCustomSizes(SHEET_SIZES)
    IN  { <<relevantSizes[i].id, GSM_OPTIONS[g]>> :
            i \in DOMAIN relevantSizes, g \in DOMAIN GSM_OPTIONS }

SizeOf(id) ==
    LET Test(size) == size.id = id
    IN  FindFirst(SHEET_SIZES, Test, [id |-> "undefined", width |-> 0, height |-> 0])

\* The effect on [costPerKg, gsmPriceMode, paperCostIncreasePerGsm,
\* customCostMatrix], with the props the form passes: costPerKg = 150,
\* gsmPriceMode = 'flat', paperCostIncreasePerGsm = 0.5 where the job has
\* none, then costPerKg || 150 and paperCostIncreasePerGsm || 0.5
MatrixValues(j) ==
    LET costPerKg == IF j.paperCostPerKg = Undefined THEN Num(150) ELSE j.paperCostPerKg
        paperCostIncreasePerGsm ==
            IF j.paperCostIncreasePerGsm = Undefined
            THEN Frac(5, 10) ELSE j.paperCostIncreasePerGsm
    IN  [key \in MatrixKeys |->
            calculateCostPerSheet(Num(SizeOf(key[1]).width), Num(SizeOf(key[1]).height),
                                  Num(key[2]), OrElse(costPerKg, Num(150)),
                                  j.gsmPriceMode,
                                  OrElse(paperCostIncreasePerGsm, Frac(5, 10)),
                                  Num(80), j.customCostMatrix)]

\* The effect runs: setMatrixValues(newValues)
CalculateMatrixValues ==
    /\ ~paperMatrix.calculated
    /\ paperMatrix' = [matrixValues |-> MatrixValues(job), calculated |-> TRUE]
    /\ UNCHANGED <<engineVars, jobStore, auth, provider, form, events>>

NextSelector ==
    \/ CalculateMatrixValues
    \/ Calculate

SpecSelector == InitSelector /\ [][NextSelector]_vars

\* The cell of the job: (job.paperSizeId, job.paperGsm)
JobCell == <<job.paperSizeId, IF IsNum(job.paperGsm) /\ job.paperGsm.d = 1 THEN job.paperGsm.n ELSE 0>>

\* C29: the cost per sheet the matrix shows in the cell (job.paperSizeId,
\* job.paperGsm) equals the cost per sheet calculateTotalCost uses for
\* materialCost, for every job and pricing mode.
C29_MatrixAgreesWithEngine ==
    (paperMatrix.calculated /\ calls # <<>> /\ JobCell \in MatrixKeys)
    => /\ paperMatrix.matrixValues[JobCell] = CostPerSheet(job, settings)
       /\ result.materialCost = JsMul(SheetsNeeded(job), paperMatrix.matrixValues[JobCell])

----------------------------------------------------------------------------
(* utils/authEventManager: AuthEventManager *)

EventsOthersIdle ==
    /\ paperMatrix = Idle /\ jobStore = Idle /\ auth = Idle /\ provider = Idle /\ form = Idle

\* How many listener functions there are
NumListeners == 3

\* How many times emit is called
MaxEmits == 2

Listeners == 1..NumListeners

\* What a listener does when it is called: return, throw, call the cleanup
\* function of a listener, or add a listener
ListenerBehaviours ==
    {<<"return", 0>>, <<"throw", 0>>}
    \cup {<<"cleanup", c>> : c \in Listeners}
    \cup {<<"addListener", c>> : c \in Listeners}

\* new AuthEventManager(): listeners = [].  added: the listeners addListener
\* was called with, which have a cleanup function; cleaned: those whose
\* cleanup function has run; of the emit under way or last finished: k is
\* forEach's index, len the length it read at its start, registered the
\* listeners at the call, invoked the listeners called so far, in order
InitEvents ==
    /\ EngineIdle
    /\ EventsOthersIdle
    /\ events = [listeners |-> <<>>, added |-> {}, cleaned |-> {}, emits |-> 0,
                 emitting |-> FALSE, k |-> 0, len |-> 0,
                 registered |-> <<>>, invoked |-> <<>>, lateEvents |-> {}]

\* listeners.indexOf(listener), 0 for -1
IndexOf(listeners, listener) ==
    IF \E i \in DOMAIN listeners : listeners[i] = listener
    THEN CHOOSE i \in DOMAIN listeners :
            /\ listeners[i] = listener
            /\ \A j \in DOMAIN listeners : listeners[j] = listener => i <= j
    ELSE 0

\* listeners.splice(index, 1)
Splice(listeners, index) ==
    SubSeq(listeners, 1, index - 1) \o SubSeq(listeners, index + 1, Len(listeners))

\* this.listeners.push(listener)
addListenerTo(e, listener) ==
    [e EXCEPT !.listeners = Append(@, listener), !.added = @ \cup {listener}]

\* The function addListener(listener) returned: the listener's first
\* occurrence is spliced out when there is one
cleanupIn(e, listener) ==
    [e EXCEPT !.listeners = IF IndexOf(@, listener) > 0
                            THEN Splice(@, IndexOf(e.listeners, listener)) ELSE @,
              !.cleaned = @ \cup {listener}]

\* addListener(listener) outside a delivery, with a function not added before
addListener(listener) ==
    /\ ~events.emitting
    /\ listener \notin events.added
    /\ events' = addListenerTo(events, listener)
    /\ UNCHANGED <<engineVars, paperMatrix, jobStore, auth, provider, form>>

\* A cleanup function called outside a delivery
cleanup(listener) ==
    /\ ~events.emitting
    /\ listener \in events.added
    /\ events' = cleanupIn(events, listener)
    /\ UNCHANGED <<engineVars, paperMatrix, jobStore, auth, provider, form>>

\* emit(event) is called: forEach reads the length
emit ==
    /\ ~events.emitting
    /\ events.emits < MaxEmits
    /\ events' = [events EXCEPT !.emitting = TRUE, !.emits = @ + 1, !.k = 0,
                                !.len = Len(events.listeners),
                                !.registered = events.listeners, !.invoked = <<>>]
    /\ UNCHANGED <<engineVars, paperMatrix, jobStore, auth, provider, form>>

\* What the listener's call does to the manager
Behave(e, behaviour) ==
    IF behaviour[1] = "cleanup" /\ behaviour[2] \in e.added
    THEN cleanupIn(e, behaviour[2])
    ELSE IF behaviour[1] = "addListener" /\ behaviour[2] \notin e.added
    THEN addListenerTo(e, behaviour[2])
    ELSE e

\* One step of forEach: the element at the next index, when the array has
\* one there, is called inside try/catch
Deliver(behaviour) ==
    /\ events.emitting
    /\ events.k < events.len
    /\ events' =
         IF events.k + 1 \in DOMAIN events.listeners
         THEN LET listener == events.listeners[events.k + 1]
              IN  Behave([events EXCEPT
                             !.k = @ + 1,
                             !.invoked = Append(@, listener),
                             !.lateEvents = IF listener \in events.cleaned
                                            THEN @ \cup {listener} ELSE @],
                         behaviour)
         ELSE [events EXCEPT !.k = @ + 1]
    /\ UNCHANGED <<engineVars, paperMatrix, jobStore, auth, provider, form>>

\* forEach is through: emit returns
emitReturns ==
    /\ events.emitting
    /\ events.k = events.len
    /\ events' = [events EXCEPT !.emitting = FALSE]
    /\ UNCHANGED <<engineVars, paperMatrix, jobStore, auth, provider, form>>

NextEvents ==
    \/ \E listener \in Listeners : addListener(listener)
    \/ \E listener \in Listeners : cleanup(listener)
    \/ emit
    \/ \E behaviour \in ListenerBehaviours : Deliver(behaviour)
    \/ emitReturns

SpecEvents == InitEvents /\ [][NextEvents]_vars

\* C30: when emit returns, every listener that was registered at the call
\* has been invoked exactly once, in registration order, whatever the
\* listeners did; and a listener whose cleanup function has run receives no
\* later event.
C30_EmitInvokesAll ==
    /\ (events.emits > 0 /\ ~events.emitting) => events.invoked = events.registered
    /\ events.lateEvents = {}

====
